---- MODULE Spec2Model ----
(***************************************************************************)
(* A model of the SportiQue consent / escrow / audit platform.            *)
(*                                                                         *)
(* Part I models the escrow engine, XRPLEscrowManager of                   *)
(* src/escrow_payment.py: the registry of escrow contracts, the action     *)
(* log, and the handlers create_escrow_offer, lock_escrow_funds,           *)
(* fulfill_escrow and cancel_escrow.  Part II runs fulfill_escrow and      *)
(* cancel_escrow as concurrent calls, statement by statement.  Part III    *)
(* models the orchestrator, SportiQuePlatform of                           *)
(* src/sportique_platform.py, with the consent manager, the bundle store   *)
(* and the audit log it drives.  Part IV models the credential service,   *)
(* ConsentManager of src/consent_manager.py, called directly.  Part V      *)
(* runs the escrow engine with two escrows.  Part VI models the audit      *)
(* manager, AuditTrailManager of src/audit_trail.py, called directly and   *)
(* through the orchestrator.  Part VII runs its read operations on stored  *)
(* logs of any order, Part VIII record_audit_event on metadata of any      *)
(* shape.                                                                  *)
(*                                                                         *)
(* Time is counted in units of 24 hours.  datetime.utcnow() is the         *)
(* variable now, advanced by Tick.                                         *)
(***************************************************************************)
EXTENDS Integers, Sequences, FiniteSets, TLC

(***************************************************************************)
(* Bounds of the model.                                                    *)
(***************************************************************************)
\* last value of the clock
MaxTime == 3
\* largest length of the escrow action log
MaxHistory == 5
\* largest length of the audit log
MaxAudit == 6
\* largest length of the audit log at which the audit manager is still
\* called directly
MaxDirect == 2
\* last value of the clock while the audit manager is called directly
MaxAuditTime == 1

(***************************************************************************)
(* Program constants.                                                      *)
(***************************************************************************)
\* expires_at = delivery_deadline + timedelta(hours=24): one clock unit
GracePeriod == 1
\* 1 XRP = 1,000,000 drops
DropsPerXrp == 1000000
\* 2000-01-01 00:00:00 UTC as seconds since the Unix epoch, 10957 days
RippleEpochOffset == 10957
\* accept_offer passes delivery_hours=72: three clock units
DeliveryHours72 == 3

(***************************************************************************)
(* Input domains.                                                          *)
(***************************************************************************)
\* the ids _generate_id hands out ("escrow_" + token_hex(16))
EscrowIds == {"escrow_1"}
\* the ids callers pass: those handed out, and one that never was
CallIds == EscrowIds \cup {"escrow_x"}
\* ledger sequence numbers passed to lock_escrow_funds
XrplSequences == {12345, 12346}
\* delivery windows (delivery_hours, in clock units) passed to create_escrow_offer
DeliveryWindows == {0, 1}
Payers == {"rPayer"}
Payees == {"rPayee"}
Amounts == {50}
ConsentIds == {"consent1"}
\* a content digest is a pair <<first 32 hex digits, last 32 hex digits>>
BundleHashes == {<<"d1", "e1">>, <<"d1", "e2">>}
\* what secrets.token_hex(32) can return: lower-case hexadecimal strings
Preimages == {"ab"}
\* what a caller of fulfill_escrow can supply as the secret
SuppliedPreimages == Preimages \cup {"AB"}

\* Optional[T]: None is the empty tuple, a value x is <<x>>
None == <<>>
Some(x) == <<x>>

\* the values of the enum EscrowStatus
EscrowStatus == {"created", "locked", "fulfilled", "expired", "cancelled"}

\* the callers that run fulfill_escrow and cancel_escrow concurrently
Threads == {"t1", "t2"}

VARIABLES
    now,             \* datetime.utcnow()
    active_escrows,  \* XRPLEscrowManager.active_escrows
    escrow_history,  \* XRPLEscrowManager.escrow_history
    last_call,       \* the last call that ran to completion, and its result
    threads,         \* the calls in progress: position, arguments, locals
    offers,          \* SportiQuePlatform.offers
    transactions,    \* SportiQuePlatform.transactions
    active_consents, \* ConsentManager.active_consents
    consent_history, \* ConsentManager.consent_history
    bundles,         \* FHIRDataManager.bundles
    audit_events,    \* AuditTrailManager.audit_events
    access_logs,     \* AuditTrailManager.access_logs
    xrpl_transactions  \* AuditTrailManager.xrpl_transactions

\* what the audit manager keeps beside its events
audit_index == <<access_logs, xrpl_transactions>>

\* the state of the orchestrator and of the managers beside the escrow engine
platform == <<offers, transactions, active_consents, consent_history,
              bundles, audit_events, audit_index>>

vars == <<now, active_escrows, escrow_history, last_call, threads, platform>>

(***************************************************************************)
(* Pure helpers.                                                           *)
(***************************************************************************)
\* hashlib.sha256(s.encode()).hexdigest().upper(): injective on the model's
\* strings, and its values are no preimages
Sha256HexUpper(s) == <<"SHA256", s>>

\* str.upper() on the model's strings
Upper(s) == CASE s = "ab" -> "AB"
              [] OTHER -> s

\* text.encode('utf-8').hex().upper(): an injective encoding
HexEncode(x) == <<"HEX", x>>

\* fhir_bundle_hash[:32]
First32(h) == h[1]

LogEntry(action, id, payer, payee, amount) ==
    [timestamp |-> now, action |-> action, escrowId |-> id,
     payer |-> payer, payee |-> payee, amount |-> amount]

\* get_xrpl_memo_data against a registry: {} for an unknown id
GetXrplMemoData(escrows, id) ==
    IF id \notin DOMAIN escrows
    THEN <<>>
    ELSE [EscrowID |-> id,
          ConsentID |-> escrows[id].consent_id,
          DataHash |-> First32(escrows[id].data_condition.fhir_bundle_hash),
          Amount |-> escrows[id].amount,
          Purpose |-> "HealthDataPayment"]

\* _build_escrow_create_transaction; the registry is the one at the time of
\* the call, which does not hold the new escrow yet
BuildEscrowCreateTransaction(escrows, escrow) ==
    [TransactionType |-> "EscrowCreate",
     Account |-> escrow.payer,
     Destination |-> escrow.payee,
     Amount |-> escrow.amount * DropsPerXrp,
     FinishAfter |-> escrow.expires_at - RippleEpochOffset,
     Condition |-> escrow.data_condition.preimage_hash,
     Memos |-> [MemoType |-> HexEncode("SportiQueEscrow"),
                MemoData |-> HexEncode(GetXrplMemoData(escrows, escrow.escrow_id))]]

BuildEscrowFinishTransaction(escrow, preimage, at) ==
    [TransactionType |-> "EscrowFinish",
     Account |-> escrow.payee,
     Owner |-> escrow.payer,
     OfferSequence |-> escrow.xrpl_sequence,
     Fulfillment |-> Upper(preimage),
     Memos |-> [MemoType |-> HexEncode("SportiQueComplete"),
                MemoData |-> HexEncode([EscrowID |-> escrow.escrow_id,
                                        ConsentID |-> escrow.consent_id,
                                        CompletedAt |-> at])]]

BuildEscrowCancelTransaction(escrow, at) ==
    [TransactionType |-> "EscrowCancel",
     Account |-> escrow.payer,
     Owner |-> escrow.payer,
     OfferSequence |-> escrow.xrpl_sequence,
     Memos |-> [MemoType |-> HexEncode("SportiQueCancel"),
                MemoData |-> HexEncode([EscrowID |-> escrow.escrow_id,
                                        CancelledAt |-> at,
                                        Reason |-> "Expired"])]]

\* the record of a call: its arguments, the clock and the escrow at entry
\* (None for an unknown id), and what it returned
Call(op, id, args, ok, tx) ==
    [op |-> op, escrow_id |-> id, args |-> args, at |-> now,
     pre |-> IF id \in DOMAIN active_escrows
             THEN Some(active_escrows[id]) ELSE None,
     ok |-> ok, tx |-> tx]

NoCall == [op |-> "none", escrow_id |-> "", args |-> <<>>, at |-> 0,
           pre |-> None, ok |-> FALSE, tx |-> None]

\* a thread that runs no call
Idle == [pc |-> "idle", op |-> "none", escrow_id |-> "", args |-> <<>>,
         entry |-> None, wrote |-> FALSE, tx |-> None, result |-> None]

InFlight == {t \in Threads : threads[t].pc \notin {"idle", "done"}}

\* the log has room for one more entry from this call and one from each
\* call in progress
HistoryRoom == Len(escrow_history) + Cardinality(InFlight) < MaxHistory

(***************************************************************************)
(* Init: XRPLEscrowManager.__init__                                        *)
(***************************************************************************)
Init ==
    /\ now = 0
    /\ active_escrows = <<>>
    /\ escrow_history = <<>>
    /\ last_call = NoCall
    /\ threads = [t \in Threads |-> Idle]
    /\ offers = <<>>
    /\ transactions = <<>>
    /\ active_consents = <<>>
    /\ consent_history = <<>>
    /\ bundles = <<>>
    /\ audit_events = <<>>
    /\ access_logs = <<>>
    /\ xrpl_transactions = <<>>

\* the clock advances, up to limit
Elapse(limit) ==
    /\ now < limit
    /\ now' = now + 1
    /\ UNCHANGED <<active_escrows, escrow_history, last_call, threads, platform>>

Tick == Elapse(MaxTime)

(***************************************************************************)
(* create_escrow_offer                                                     *)
(***************************************************************************)
NewEscrow(id, payer, payee, amount, consent, hash, window, preimage) ==
    [escrow_id |-> id, payer |-> payer, payee |-> payee, amount |-> amount,
     consent_id |-> consent,
     data_condition |-> [fhir_bundle_hash |-> hash,
                         preimage |-> preimage,
                         preimage_hash |-> Sha256HexUpper(preimage),
                         delivery_deadline |-> now + window],
     created_at |-> now,
     expires_at |-> (now + window) + GracePeriod,
     status |-> "created",
     xrpl_sequence |-> None,
     fulfillment_tx |-> None]

\* the escrow manager as a value: its registry and its log
Manager == [escrows |-> active_escrows, history |-> escrow_history]

\* create_escrow_offer on manager em, with the id and the secret it draws:
\* the manager afterwards, the contract and the create envelope
CreateResult(em, id, preimage, payer, payee, amount, consent, hash, window) ==
    LET escrow == NewEscrow(id, payer, payee, amount, consent, hash,
                            window, preimage)
    IN [em |-> [escrows |-> (id :> escrow) @@ em.escrows,
                history |-> Append(em.history,
                               LogEntry("CREATED", id, payer, payee, amount))],
        escrow |-> escrow,
        tx |-> BuildEscrowCreateTransaction(em.escrows, escrow)]

\* create_escrow_offer when _generate_id draws from ids
CreateEscrowOfferFrom(ids, payer, payee, amount, consent, hash, window) ==
    /\ HistoryRoom
    /\ \E id \in ids \ DOMAIN active_escrows, preimage \in Preimages :
         LET r == CreateResult(Manager, id, preimage, payer, payee, amount,
                               consent, hash, window)
         IN /\ active_escrows' = r.em.escrows
            /\ escrow_history' = r.em.history
            /\ last_call' = Call("create", id, <<hash, window>>, TRUE, Some(r.tx))
    /\ UNCHANGED <<now, threads, platform>>

CreateEscrowOffer(payer, payee, amount, consent, hash, window) ==
    CreateEscrowOfferFrom(EscrowIds, payer, payee, amount, consent, hash, window)

(***************************************************************************)
(* lock_escrow_funds                                                       *)
(***************************************************************************)
\* lock_escrow_funds on manager em: the manager afterwards and the result
LockResult(em, id, seq) ==
    IF id \notin DOMAIN em.escrows
    THEN [em |-> em, ok |-> FALSE]
    ELSE LET escrow == em.escrows[id] IN
         [em |-> [escrows |-> [em.escrows EXCEPT
                                 ![id].status = "locked",
                                 ![id].xrpl_sequence = Some(seq)],
                  history |-> Append(em.history,
                      LogEntry("LOCKED", id, escrow.payer, escrow.payee,
                               escrow.amount))],
          ok |-> TRUE]

LockEscrowFunds(id, seq) ==
    /\ HistoryRoom
    /\ LET r == LockResult(Manager, id, seq) IN
       /\ active_escrows' = r.em.escrows
       /\ escrow_history' = r.em.history
       /\ last_call' = Call("lock", id, <<seq>>, r.ok, None)
    /\ UNCHANGED <<now, threads, platform>>

(***************************************************************************)
(* fulfill_escrow                                                          *)
(***************************************************************************)
\* fulfill_escrow without the comparison of the content digest
FulfillOutcomeNoHashCheck(escrows, id, hash, preimage) ==
    IF id \notin DOMAIN escrows THEN "unknown"
    ELSE IF escrows[id].status # "locked" THEN "not_locked"
    ELSE IF now > escrows[id].expires_at THEN "expired"
    ELSE IF Sha256HexUpper(preimage) # escrows[id].data_condition.preimage_hash
         THEN "preimage_mismatch"
    ELSE "fulfilled"

\* fulfill_escrow with the expiry check after the condition checks
FulfillOutcomeLateExpiry(escrows, id, hash, preimage) ==
    IF id \notin DOMAIN escrows THEN "unknown"
    ELSE IF escrows[id].status # "locked" THEN "not_locked"
    ELSE IF hash # escrows[id].data_condition.fhir_bundle_hash THEN "hash_mismatch"
    ELSE IF Sha256HexUpper(preimage) # escrows[id].data_condition.preimage_hash
         THEN "preimage_mismatch"
    ELSE IF now > escrows[id].expires_at THEN "expired"
    ELSE "fulfilled"

\* fulfill_escrow that takes the delivery deadline for the expiry time
FulfillOutcomeAtDeadline(escrows, id, hash, preimage) ==
    IF id \notin DOMAIN escrows THEN "unknown"
    ELSE IF escrows[id].status # "locked" THEN "not_locked"
    ELSE IF now > escrows[id].data_condition.delivery_deadline THEN "expired"
    ELSE IF hash # escrows[id].data_condition.fhir_bundle_hash THEN "hash_mismatch"
    ELSE IF Sha256HexUpper(preimage) # escrows[id].data_condition.preimage_hash
         THEN "preimage_mismatch"
    ELSE "fulfilled"

\* the outcome of the checks of fulfill_escrow, in the order of the code
FulfillOutcome(escrows, id, hash, preimage) ==
    IF id \notin DOMAIN escrows THEN "unknown"
    ELSE IF escrows[id].status # "locked" THEN "not_locked"
    ELSE IF now > escrows[id].expires_at THEN "expired"
    ELSE IF hash # escrows[id].data_condition.fhir_bundle_hash THEN "hash_mismatch"
    ELSE IF Sha256HexUpper(preimage) # escrows[id].data_condition.preimage_hash
         THEN "preimage_mismatch"
    ELSE "fulfilled"

\* fulfill_escrow on manager em: the manager afterwards, the result and
\* the finish envelope
FulfillResult(em, id, hash, preimage) ==
    LET outcome == FulfillOutcome(em.escrows, id, hash, preimage) IN
    CASE outcome = "fulfilled" ->
           LET escrow == em.escrows[id] IN
           [em |-> [escrows |-> [em.escrows EXCEPT ![id].status = "fulfilled"],
                    history |-> Append(em.history,
                        LogEntry("FULFILLED", id, escrow.payer, escrow.payee,
                                 escrow.amount))],
            ok |-> TRUE,
            tx |-> Some(BuildEscrowFinishTransaction(escrow, preimage, now))]
      [] outcome = "expired" ->
           [em |-> [em EXCEPT !.escrows[id].status = "expired"],
            ok |-> FALSE, tx |-> None]
      [] OTHER -> [em |-> em, ok |-> FALSE, tx |-> None]

FulfillEscrow(id, hash, preimage) ==
    /\ HistoryRoom
    /\ LET r == FulfillResult(Manager, id, hash, preimage) IN
       /\ active_escrows' = r.em.escrows
       /\ escrow_history' = r.em.history
       /\ last_call' = Call("fulfill", id, <<hash, preimage>>, r.ok, r.tx)
    /\ UNCHANGED <<now, threads, platform>>

(***************************************************************************)
(* cancel_escrow                                                           *)
(***************************************************************************)
\* cancel_escrow with the deadline comparison off by one
\* cancel_escrow without the expiry check
CancelOutcomeAnyTime(escrows, id) ==
    IF id \notin DOMAIN escrows THEN "unknown" ELSE "cancelled"

CancelOutcomeStrict(escrows, id) ==
    IF id \notin DOMAIN escrows THEN "unknown"
    ELSE IF now < escrows[id].expires_at THEN "not_expired"
    ELSE "cancelled"

CancelOutcome(escrows, id) ==
    IF id \notin DOMAIN escrows THEN "unknown"
    ELSE IF now <= escrows[id].expires_at THEN "not_expired"
    ELSE "cancelled"

\* cancel_escrow on manager em: the manager afterwards, the result and the
\* cancel envelope
CancelResult(em, id) ==
    IF CancelOutcome(em.escrows, id) = "cancelled"
    THEN LET escrow == em.escrows[id] IN
         [em |-> [escrows |-> [em.escrows EXCEPT ![id].status = "expired"],
                  history |-> Append(em.history,
                      LogEntry("CANCELLED", id, escrow.payer, escrow.payee,
                               escrow.amount))],
          ok |-> TRUE,
          tx |-> Some(BuildEscrowCancelTransaction(escrow, now))]
    ELSE [em |-> em, ok |-> FALSE, tx |-> None]

CancelEscrow(id) ==
    /\ HistoryRoom
    /\ LET r == CancelResult(Manager, id) IN
       /\ active_escrows' = r.em.escrows
       /\ escrow_history' = r.em.history
       /\ last_call' = Call("cancel", id, <<>>, r.ok, r.tx)
    /\ UNCHANGED <<now, threads, platform>>

Next ==
    \/ Tick
    \/ \E payer \in Payers, payee \in Payees, amount \in Amounts,
          consent \in ConsentIds, hash \in BundleHashes, window \in DeliveryWindows :
         CreateEscrowOffer(payer, payee, amount, consent, hash, window)
    \/ \E id \in CallIds, seq \in XrplSequences : LockEscrowFunds(id, seq)
    \/ \E id \in CallIds, hash \in BundleHashes, preimage \in SuppliedPreimages :
         FulfillEscrow(id, hash, preimage)
    \/ \E id \in CallIds : CancelEscrow(id)

Spec == Init /\ [][Next]_vars

(***************************************************************************)
(* fulfill_escrow and cancel_escrow run by concurrent callers.  The class  *)
(* takes no lock, so two calls interleave between statements.  Each action *)
(* below is a run of statements of the call of thread t that reads or      *)
(* writes at most one thing another caller can change (the status, the     *)
(* clock, the log); the registry keeps every escrow, and the condition     *)
(* fields never change.  escrow is a reference to the registry's object:   *)
(* every step reads the shared escrow.                                     *)
(***************************************************************************)
Return(t, ok, tx) ==
    [threads EXCEPT ![t].pc = "done",
                    ![t].result = Some([ok |-> ok, tx |-> tx])]

Goto(t, pc) == [threads EXCEPT ![t].pc = pc]

Shared(t) == active_escrows[threads[t].escrow_id]

\* a caller enters fulfill_escrow or cancel_escrow
ThreadCall(t, op, id, args) ==
    /\ threads[t].pc = "idle"
    /\ HistoryRoom
    /\ threads' = [threads EXCEPT ![t] =
          [pc |-> IF op = "fulfill" THEN "f130" ELSE "c165",
           op |-> op, escrow_id |-> id, args |-> args,
           entry |-> IF id \in DOMAIN active_escrows
                     THEN Some([status |-> active_escrows[id].status,
                                in_time |-> now <= active_escrows[id].expires_at])
                     ELSE None,
           wrote |-> FALSE, tx |-> None, result |-> None]]
    /\ UNCHANGED <<now, active_escrows, escrow_history, last_call, platform>>

\* if escrow_id not in self.active_escrows: return False, None
\* if escrow.status != EscrowStatus.LOCKED: return False, None
Fulfill130(t) ==
    /\ threads[t].pc = "f130"
    /\ threads' = IF threads[t].escrow_id \notin DOMAIN active_escrows
                  THEN Return(t, FALSE, None)
                  ELSE IF Shared(t).status # "locked"
                  THEN Return(t, FALSE, None) ELSE Goto(t, "f140")
    /\ UNCHANGED <<now, active_escrows, escrow_history, last_call, platform>>

\* if datetime.utcnow() > escrow.expires_at: ... ; then the comparisons of
\* the content digest and of the digest of the secret, which read only
\* arguments and fields that never change
Fulfill140(t) ==
    /\ threads[t].pc = "f140"
    /\ threads' =
         IF now > Shared(t).expires_at THEN Goto(t, "f141")
         ELSE IF threads[t].args[1] # Shared(t).data_condition.fhir_bundle_hash
         THEN Return(t, FALSE, None)
         ELSE IF Sha256HexUpper(threads[t].args[2]) # Shared(t).data_condition.preimage_hash
         THEN Return(t, FALSE, None)
         ELSE Goto(t, "f154")
    /\ UNCHANGED <<now, active_escrows, escrow_history, last_call, platform>>

\* escrow.status = EscrowStatus.EXPIRED; return False, None
Fulfill141(t) ==
    /\ threads[t].pc = "f141"
    /\ active_escrows' = [active_escrows EXCEPT ![threads[t].escrow_id].status = "expired"]
    /\ threads' = [Return(t, FALSE, None) EXCEPT ![t].wrote = TRUE]
    /\ UNCHANGED <<now, escrow_history, last_call, platform>>

\* finish_transaction = self._build_escrow_finish_transaction(escrow, preimage)
Fulfill154(t) ==
    /\ threads[t].pc = "f154"
    /\ threads' = [threads EXCEPT
                     ![t].pc = "f157",
                     ![t].tx = Some(BuildEscrowFinishTransaction(
                                        Shared(t), threads[t].args[2], now))]
    /\ UNCHANGED <<now, active_escrows, escrow_history, last_call, platform>>

\* escrow.status = EscrowStatus.FULFILLED
Fulfill157(t) ==
    /\ threads[t].pc = "f157"
    /\ active_escrows' = [active_escrows EXCEPT ![threads[t].escrow_id].status = "fulfilled"]
    /\ threads' = [threads EXCEPT ![t].pc = "f159", ![t].wrote = TRUE]
    /\ UNCHANGED <<now, escrow_history, last_call, platform>>

\* self._log_escrow_action("FULFILLED", ...); return True, finish_transaction
Fulfill159(t) ==
    /\ threads[t].pc = "f159"
    /\ escrow_history' = Append(escrow_history,
          LogEntry("FULFILLED", threads[t].escrow_id, Shared(t).payer,
                   Shared(t).payee, Shared(t).amount))
    /\ threads' = Return(t, TRUE, threads[t].tx)
    /\ UNCHANGED <<now, active_escrows, last_call, platform>>

\* if escrow_id not in self.active_escrows: return False, None
\* if datetime.utcnow() <= escrow.expires_at: return False, None
Cancel165(t) ==
    /\ threads[t].pc = "c165"
    /\ threads' = IF threads[t].escrow_id \notin DOMAIN active_escrows
                  THEN Return(t, FALSE, None)
                  ELSE IF now <= Shared(t).expires_at
                  THEN Return(t, FALSE, None) ELSE Goto(t, "c175")
    /\ UNCHANGED <<now, active_escrows, escrow_history, last_call, platform>>

\* cancel_transaction = self._build_escrow_cancel_transaction(escrow)
Cancel175(t) ==
    /\ threads[t].pc = "c175"
    /\ threads' = [threads EXCEPT
                     ![t].pc = "c178",
                     ![t].tx = Some(BuildEscrowCancelTransaction(Shared(t), now))]
    /\ UNCHANGED <<now, active_escrows, escrow_history, last_call, platform>>

\* escrow.status = EscrowStatus.EXPIRED
Cancel178(t) ==
    /\ threads[t].pc = "c178"
    /\ active_escrows' = [active_escrows EXCEPT ![threads[t].escrow_id].status = "expired"]
    /\ threads' = [threads EXCEPT ![t].pc = "c180", ![t].wrote = TRUE]
    /\ UNCHANGED <<now, escrow_history, last_call, platform>>

\* self._log_escrow_action("CANCELLED", ...); return True, cancel_transaction
Cancel180(t) ==
    /\ threads[t].pc = "c180"
    /\ escrow_history' = Append(escrow_history,
          LogEntry("CANCELLED", threads[t].escrow_id, Shared(t).payer,
                   Shared(t).payee, Shared(t).amount))
    /\ threads' = Return(t, TRUE, threads[t].tx)
    /\ UNCHANGED <<now, active_escrows, last_call, platform>>

ThreadStep(t) ==
    \/ Fulfill130(t) \/ Fulfill140(t) \/ Fulfill141(t)
    \/ Fulfill154(t) \/ Fulfill157(t) \/ Fulfill159(t)
    \/ Cancel165(t) \/ Cancel175(t) \/ Cancel178(t) \/ Cancel180(t)

\* no call of a thread has started
AllIdle == \A t \in Threads : threads[t].pc = "idle"

\* One caller opens and locks the escrow while no thread runs; then the
\* threads run one call each, interleaved with each other and with the
\* clock: "t1" a fulfill, "t2" a fulfill or a cancel.
NextConc ==
    \/ Tick
    \/ /\ AllIdle
       /\ \E payer \in Payers, payee \in Payees, amount \in Amounts,
             consent \in ConsentIds, hash \in BundleHashes, window \in DeliveryWindows :
            CreateEscrowOffer(payer, payee, amount, consent, hash, window)
    \/ /\ AllIdle
       /\ \E id \in EscrowIds, seq \in XrplSequences : LockEscrowFunds(id, seq)
    \/ \E t \in Threads, id \in EscrowIds, hash \in BundleHashes,
          preimage \in SuppliedPreimages :
         ThreadCall(t, "fulfill", id, <<hash, preimage>>)
    \/ \E id \in EscrowIds : ThreadCall("t2", "cancel", id, <<>>)
    \/ \E t \in Threads : ThreadStep(t)

SpecConc == Init /\ [][NextConc]_vars

(***************************************************************************)
(* Part III.  The orchestrator: SportiQuePlatform, with ConsentManager,    *)
(* FHIRDataManager and AuditTrailManager.                                  *)
(***************************************************************************)
\* the ids the orchestrator and its managers hand out
OfferIds == {"offer_1"}
TransactionIds == {"tx_1"}
BundleIds == {"bundle_1"}
\* the digests calculate_bundle_hash returns for the bundles it is given
SampleBundleHashes == {<<"d1", "e1">>}
\* the ids callers pass: those handed out, and one that never was
CallOfferIds == OfferIds \cup {"offer_x"}
CallTransactionIds == TransactionIds \cup {"tx_x"}
PlatformDid == "did:sportique:platform"
Requesters == {"did:requester"}
Patients == {"did:patient"}
\* who asks to withdraw: the patient, or somebody else
WithdrawCallers == Patients \cup {"did:other"}
\* valid_days passed to create_data_offer
ValidDays == {0, 1}
\* data_types and purpose passed to create_data_offer
DataTypes == {<<"Observation">>}
Purposes == {"research"}
\* the clock of the orchestrator runs until an escrow opened at MaxTime has
\* passed its delivery window
PlatformMaxTime == MaxTime + DeliveryHours72

\* the values of the enum OfferStatus
OfferStatus == {"pending", "accepted", "rejected", "completed", "expired"}

\* patient_did.split(":")[-1]
LastSegment(did) == CASE did = "did:patient" -> "patient"
                      [] did = "did:other" -> "other"
                      [] OTHER -> did

\* AuditTrailManager._check_compliance
CheckComplianceAnyField(event_type, metadata) ==
    IF event_type = "consent_created"
    THEN IF metadata # <<>> THEN "COMPLIANT" ELSE "NON_COMPLIANT"
    ELSE "COMPLIANT"

CheckCompliance(event_type, metadata) ==
    IF event_type = "consent_created"
    THEN IF /\ metadata # <<>>
            /\ {"purpose", "dataTypes", "retentionPeriod", "recipient"}
                   \subseteq DOMAIN metadata
         THEN "COMPLIANT" ELSE "NON_COMPLIANT"
    ELSE "COMPLIANT"

\* an event whose timestamp runs against the clock
AuditEventBackdated(events, kind, actor, subject, resource, tx_hash, metadata) ==
    [event_id |-> <<"audit", Len(events) + 1>>,
     event_type |-> kind, timestamp |-> PlatformMaxTime - now,
     actor |-> actor, subject |-> subject, resource_id |-> resource,
     xrpl_tx_hash |-> tx_hash, metadata |-> metadata,
     compliance_status |-> CheckCompliance(kind, metadata)]

\* the AuditEvent record_audit_event builds for the log events: a new id,
\* the current time, and the compliance status computed from the event
AuditEvent(events, kind, actor, subject, resource, tx_hash, metadata) ==
    [event_id |-> <<"audit", Len(events) + 1>>,
     event_type |-> kind, timestamp |-> now,
     actor |-> actor, subject |-> subject, resource_id |-> resource,
     xrpl_tx_hash |-> tx_hash, metadata |-> metadata,
     compliance_status |-> CheckCompliance(kind, metadata)]

\* a record_audit_event that puts the new event in front of the log
RecordAuditEventTxInFront(events, kind, actor, subject, resource, tx_hash, metadata) ==
    <<AuditEvent(events, kind, actor, subject, resource, tx_hash, metadata)>>
        \o events

\* AuditTrailManager.record_audit_event on the log events, with a ledger
\* transaction hash; metadata None is stored as {}
RecordAuditEventTx(events, kind, actor, subject, resource, tx_hash, metadata) ==
    Append(events, AuditEvent(events, kind, actor, subject, resource,
                              tx_hash, metadata))

\* a record_audit_event that appends nothing
RecordAuditEventDropped(events, event_type, actor, subject, resource_id, metadata) ==
    events

\* AuditTrailManager.record_audit_event on the log events, as the
\* orchestrator calls it (no ledger transaction hash)
RecordAuditEvent(events, event_type, actor, subject, resource_id, metadata) ==
    RecordAuditEventTx(events, event_type, actor, subject, resource_id,
                       None, metadata)

\* the log has room for n more events
AuditRoom(n) == Len(audit_events) + n <= MaxAudit

\* ConsentManager._log_consent_action
ConsentLogEntry(action, vc_id, patient_did, recipient) ==
    [timestamp |-> now, action |-> action, consentId |-> vc_id,
     patientDid |-> patient_did, recipient |-> recipient]

\* hashlib.sha256(json.dumps(d, sort_keys=True).encode()).digest(): injective
\* on the model's values
Sha256(d) == <<"SHA256", d>>

\* private_key.sign(digest, PSS, SHA256) and public_key.verify(signature,
\* digest, PSS, SHA256) for the one key pair of the platform
RsaSign(digest) == <<"RSA-PSS", digest>>
RsaVerify(signature, digest) == signature = RsaSign(digest)

\* VerifiableCredential.to_dict
VcToDict(vc) ==
    [id |-> vc.id, issuer |-> vc.issuer, issuanceDate |-> vc.issuance_date,
     expirationDate |-> vc.expiration_date,
     credentialSubject |-> vc.credential_subject, proof |-> vc.proof]

\* ConsentManager._create_proof: the signature is over the digest of
\* to_dict(), taken while proof is still None
CreateProof(vc) ==
    [type |-> "RsaSignature2018", created |-> now,
     verificationMethod |-> <<PlatformDid, "#key-1">>,
     proofPurpose |-> "assertionMethod",
     signatureValue |-> RsaSign(Sha256(VcToDict(vc)))]

\* ConsentManager.create_consent_vc for the terms accept_offer builds from
\* the offer: the credential it stores and returns
CreateConsentVc(vc_id, patient_did, offer) ==
    LET vc == [id |-> vc_id,
               issuer |-> PlatformDid,
               issuance_date |-> now,
               expiration_date |-> offer.valid_until,
               credential_subject |->
                   [id |-> patient_did,
                    consentGiven |-> TRUE,
                    consentTerms |->
                        [recipient |-> offer.requester,
                         purpose |-> offer.purpose,
                         dataTypes |-> offer.data_types,
                         collectionPeriod |-> offer.collection_period,
                         retentionPeriod |-> offer.retention_period,
                         thirdPartySharing |-> offer.third_party_sharing,
                         compensation |-> offer.compensation],
                    consentDate |-> now,
                    validUntil |-> offer.valid_until,
                    withdrawalDate |-> None],
               proof |-> None]
    IN [vc EXCEPT !.proof = Some(CreateProof(vc))]

\* the record of a call of the orchestrator; ok is FALSE when it raised
PlatformCall(op, args, escrow_id, ok, tx) == Call(op, escrow_id, args, ok, tx)

(***************************************************************************)
(* create_data_offer                                                       *)
(***************************************************************************)
CreateDataOffer(requester, data_types, purpose, compensation, valid_days) ==
    /\ AuditRoom(1)
    /\ \E offer_id \in OfferIds \ DOMAIN offers :
         /\ offers' = (offer_id :>
                [offer_id |-> offer_id,
                 requester |-> requester,
                 data_types |-> data_types,
                 purpose |-> purpose,
                 compensation |-> compensation,
                 collection_period |-> "3months",
                 retention_period |-> "5years",
                 third_party_sharing |-> FALSE,
                 valid_until |-> now + valid_days,
                 created_at |-> now,
                 status |-> "pending"]) @@ offers
         /\ audit_events' = RecordAuditEvent(audit_events, "data_requested",
                requester, "platform", offer_id,
                [dataTypes |-> data_types, purpose |-> purpose,
                 compensation |-> compensation])
         /\ last_call' = PlatformCall("create_data_offer",
                                      <<requester, valid_days>>, "", TRUE,
                                      Some(offer_id))
    /\ UNCHANGED <<now, active_escrows, escrow_history, threads, transactions,
                   active_consents, consent_history, bundles, audit_index>>

(***************************************************************************)
(* accept_offer                                                            *)
(***************************************************************************)
\* float('inf') as a compensation: create_data_offer takes any float, and
\* int(amount * 1_000_000) raises OverflowError for it; it stands above
\* every amount of the model
Infinity == 1000000000
\* _build_escrow_create_transaction raises on the amount, before
\* create_escrow_offer has registered the escrow
CreateRaises(amount) == amount >= Infinity
\* the compensations offers are made with
Compensations == Amounts \cup {Infinity}

\* an accept_offer that does not look at valid_until
AcceptRaisesNoExpiry(offer_id) ==
    \/ offer_id \notin DOMAIN offers
    \/ offers[offer_id].status # "pending"

\* accept_offer raises before it has built anything
AcceptRaises(offer_id) ==
    \/ offer_id \notin DOMAIN offers
    \/ offers[offer_id].status # "pending"
    \/ now > offers[offer_id].valid_until

\* accept_offer where the credential ids and bundle ids still to be handed
\* out are drawn from vc_ids and bundle_ids
AcceptOfferFrom(vc_ids, bundle_ids, offer_id, patient_did, patient_xrpl_address, requester_xrpl_address) ==
    LET args == <<offer_id, patient_did>> IN
    IF AcceptRaises(offer_id)
    THEN /\ offers' = IF /\ offer_id \in DOMAIN offers
                         /\ offers[offer_id].status = "pending"
                      THEN [offers EXCEPT ![offer_id].status = "expired"]
                      ELSE offers
         /\ last_call' = PlatformCall("accept_offer", args, "", FALSE, None)
         /\ UNCHANGED <<now, active_escrows, escrow_history, threads,
                        transactions, active_consents, consent_history,
                        bundles, audit_events, audit_index>>
    ELSE IF CreateRaises(offers[offer_id].compensation)
    THEN \* create_escrow_offer raises: the credential and the bundle exist
         /\ \E vc_id \in vc_ids \ {consent_history[i].consentId :
                                          i \in DOMAIN consent_history},
               bundle_id \in bundle_ids \ DOMAIN bundles,
               bundle_hash \in SampleBundleHashes :
              LET offer == offers[offer_id]
                  consent_vc == CreateConsentVc(vc_id, patient_did, offer)
              IN /\ active_consents' = (vc_id :> consent_vc) @@ active_consents
                 /\ consent_history' = Append(consent_history,
                        ConsentLogEntry("CREATED", vc_id, patient_did,
                                        offer.requester))
                 /\ bundles' = (bundle_id :>
                        [bundle_id |-> bundle_id,
                         patient_id |-> LastSegment(patient_did),
                         consent_id |-> vc_id,
                         sha256 |-> bundle_hash]) @@ bundles
         /\ last_call' = PlatformCall("accept_offer", args, "", FALSE, None)
         /\ UNCHANGED <<now, active_escrows, escrow_history, threads, offers,
                        transactions, audit_events, audit_index>>
    ELSE /\ HistoryRoom
         /\ AuditRoom(1)
         /\ \E vc_id \in vc_ids \ {consent_history[i].consentId :
                                          i \in DOMAIN consent_history},
               bundle_id \in bundle_ids \ DOMAIN bundles,
               bundle_hash \in SampleBundleHashes,
               escrow_id \in EscrowIds \ DOMAIN active_escrows,
               preimage \in Preimages,
               transaction_id \in TransactionIds \ DOMAIN transactions :
              LET offer == offers[offer_id]
                  consent_vc == CreateConsentVc(vc_id, patient_did, offer)
                  r == CreateResult(Manager, escrow_id, preimage,
                                    requester_xrpl_address, patient_xrpl_address,
                                    offer.compensation, vc_id, bundle_hash,
                                    DeliveryHours72)
              IN /\ active_consents' = (vc_id :> consent_vc) @@ active_consents
                 /\ consent_history' = Append(consent_history,
                        ConsentLogEntry("CREATED", vc_id, patient_did,
                                        offer.requester))
                 /\ bundles' = (bundle_id :>
                        [bundle_id |-> bundle_id,
                         patient_id |-> LastSegment(patient_did),
                         consent_id |-> vc_id,
                         sha256 |-> bundle_hash]) @@ bundles
                 /\ active_escrows' = r.em.escrows
                 /\ escrow_history' = r.em.history
                 /\ transactions' = (transaction_id :>
                        [transaction_id |-> transaction_id,
                         offer_id |-> offer_id,
                         patient_did |-> patient_did,
                         consent_id |-> vc_id,
                         escrow_id |-> escrow_id,
                         bundle_id |-> bundle_id,
                         bundle_hash |-> bundle_hash,
                         status |-> "CONSENT_GIVEN",
                         created_at |-> now,
                         completed_at |-> None]) @@ transactions
                 /\ offers' = [offers EXCEPT ![offer_id].status = "accepted"]
                 /\ audit_events' = RecordAuditEvent(audit_events,
                        "consent_created", patient_did, patient_did, vc_id,
                        [offerId |-> offer_id,
                         transactionId |-> transaction_id,
                         escrowId |-> escrow_id])
                 /\ last_call' = PlatformCall("accept_offer", args, escrow_id,
                                              TRUE, Some(r.tx))
         /\ UNCHANGED <<now, threads, audit_index>>

AcceptOffer(offer_id, patient_did, patient_xrpl_address, requester_xrpl_address) ==
    AcceptOfferFrom(ConsentIds, BundleIds, offer_id, patient_did,
                    patient_xrpl_address, requester_xrpl_address)

(***************************************************************************)
(* complete_data_delivery                                                  *)
(***************************************************************************)
CompleteDataDelivery(transaction_id, xrpl_sequence) ==
    LET args == <<transaction_id, xrpl_sequence>> IN
    IF transaction_id \notin DOMAIN transactions
    THEN /\ last_call' = PlatformCall("complete_data_delivery", args, "",
                                      FALSE, None)
         /\ UNCHANGED <<now, active_escrows, escrow_history, threads, platform>>
    ELSE LET transaction == transactions[transaction_id]
             escrow_id == transaction.escrow_id
             locked == LockResult(Manager, escrow_id, xrpl_sequence)
             escrow_contract == locked.em.escrows[escrow_id]
             r == FulfillResult(locked.em, escrow_id, transaction.bundle_hash,
                                escrow_contract.data_condition.preimage)
         IN /\ Len(escrow_history) + 2 <= MaxHistory
            /\ AuditRoom(2)
            /\ escrow_id \in DOMAIN active_escrows
            /\ active_escrows' = r.em.escrows
            /\ escrow_history' = r.em.history
            /\ last_call' = PlatformCall("complete_data_delivery", args,
                                         escrow_id, r.ok, r.tx)
            /\ IF r.ok
               THEN /\ transactions' = [transactions EXCEPT
                           ![transaction_id].status = "COMPLETED",
                           ![transaction_id].completed_at = Some(now)]
                    /\ audit_events' = RecordAuditEvent(
                           RecordAuditEvent(audit_events, "data_delivered",
                               PlatformDid, transaction.patient_did,
                               transaction.consent_id,
                               [transactionId |-> transaction_id,
                                bundleHash |-> transaction.bundle_hash,
                                escrowId |-> escrow_id]),
                           "payment_completed", PlatformDid,
                           transaction.patient_did, escrow_id,
                           [amount |-> escrow_contract.amount,
                            currency |-> "XRP"])
               ELSE UNCHANGED <<transactions, audit_events>>
            /\ UNCHANGED <<now, threads, offers, active_consents,
                           consent_history, bundles, audit_index>>

(***************************************************************************)
(* withdraw_consent                                                        *)
(***************************************************************************)
\* ConsentManager.withdraw_consent that does not look at who asks
ConsentWithdrawableByAnyone(vc_id, patient_did) ==
    vc_id \in DOMAIN active_consents

\* ConsentManager.withdraw_consent returns True
ConsentWithdrawable(vc_id, patient_did) ==
    /\ vc_id \in DOMAIN active_consents
    /\ active_consents[vc_id].credential_subject.id = patient_did

\* a transaction whatever its status
InProgressAlways(tx) == TRUE

\* tx.status not in ["COMPLETED", "CANCELLED"]
InProgress(tx) == tx.status \notin {"COMPLETED", "CANCELLED"}

\* the loop over the related transactions: every one that is neither
\* COMPLETED nor CANCELLED has its escrow cancelled, and is marked CANCELLED
\* when the engine agrees
RECURSIVE CancelRelated(_, _, _)
CancelRelated(em, txs, ids) ==
    IF ids = {}
    THEN [em |-> em, txs |-> txs]
    ELSE LET id == CHOOSE i \in ids : TRUE
             tx == txs[id]
         IN IF InProgress(tx)
            THEN LET r == CancelResult(em, tx.escrow_id) IN
                 CancelRelated(r.em,
                               IF r.ok
                               THEN [txs EXCEPT ![id].status = "CANCELLED"]
                               ELSE txs,
                               ids \ {id})
            ELSE CancelRelated(em, txs, ids \ {id})

WithdrawConsent(consent_id, patient_did) ==
    LET args == <<consent_id, patient_did>> IN
    IF ~ConsentWithdrawable(consent_id, patient_did)
    THEN /\ last_call' = PlatformCall("withdraw_consent", args, "", FALSE, None)
         /\ UNCHANGED <<now, active_escrows, escrow_history, threads, platform>>
    ELSE LET vc == active_consents[consent_id]
             related == {id \in DOMAIN transactions :
                            transactions[id].consent_id = consent_id}
             r == CancelRelated(Manager, transactions, related)
         IN /\ Len(escrow_history) + Cardinality(related) <= MaxHistory
            /\ AuditRoom(1)
            /\ active_consents' = [c \in DOMAIN active_consents \ {consent_id}
                                      |-> active_consents[c]]
            /\ consent_history' = Append(consent_history,
                   ConsentLogEntry("WITHDRAWN", consent_id, patient_did,
                       vc.credential_subject.consentTerms.recipient))
            /\ active_escrows' = r.em.escrows
            /\ escrow_history' = r.em.history
            /\ transactions' = r.txs
            /\ audit_events' = RecordAuditEvent(audit_events,
                   "consent_withdrawn", patient_did, patient_did, consent_id,
                   <<>>)
            /\ last_call' = PlatformCall("withdraw_consent", args, "", TRUE, None)
            /\ UNCHANGED <<now, threads, offers, bundles, audit_index>>

(***************************************************************************)
(* State inspection: get_escrow_status, verify_consent,                    *)
(* get_transaction_status                                                  *)
(***************************************************************************)
\* get_escrow_status, with the secret among the fields it returns
GetEscrowStatusWithSecret(escrows, id) ==
    IF id \notin DOMAIN escrows
    THEN None
    ELSE LET escrow == escrows[id] IN
         Some([escrowId |-> escrow.escrow_id,
               status |-> escrow.status,
               payer |-> escrow.payer,
               payee |-> escrow.payee,
               amount |-> escrow.amount,
               consentId |-> escrow.consent_id,
               createdAt |-> escrow.created_at,
               expiresAt |-> escrow.expires_at,
               dataDeliveryDeadline |-> escrow.data_condition.delivery_deadline,
               xrplSequence |-> escrow.xrpl_sequence,
               fulfillmentTx |-> escrow.fulfillment_tx,
               preimage |-> escrow.data_condition.preimage])

\* get_escrow_status against a registry: None for an unknown id
GetEscrowStatus(escrows, id) ==
    IF id \notin DOMAIN escrows
    THEN None
    ELSE LET escrow == escrows[id] IN
         Some([escrowId |-> escrow.escrow_id,
               status |-> escrow.status,
               payer |-> escrow.payer,
               payee |-> escrow.payee,
               amount |-> escrow.amount,
               consentId |-> escrow.consent_id,
               createdAt |-> escrow.created_at,
               expiresAt |-> escrow.expires_at,
               dataDeliveryDeadline |-> escrow.data_condition.delivery_deadline,
               xrplSequence |-> escrow.xrpl_sequence,
               fulfillmentTx |-> escrow.fulfillment_tx])

\* del vc_dict["proof"]
WithoutProof(vc_dict) == [k \in DOMAIN vc_dict \ {"proof"} |-> vc_dict[k]]

\* ConsentManager._verify_proof: the digest is recomputed over to_dict()
\* with the key proof deleted; every exception gives False
VerifyProof(vc) ==
    /\ vc.proof # None
    /\ RsaVerify(vc.proof[1].signatureValue, Sha256(WithoutProof(VcToDict(vc))))

\* verify_consent that takes a credential the store does not hold for valid
VerifyConsentUnknownValid(consents, vc_id, recipient, at) ==
    vc_id \notin DOMAIN consents

\* verify_consent that looks at the expiration only
VerifyConsentExpiryOnly(consents, vc_id, recipient, at) ==
    IF vc_id \notin DOMAIN consents THEN FALSE
    ELSE at <= consents[vc_id].expiration_date

\* ConsentManager.verify_consent against a credential store at time at
VerifyConsent(consents, vc_id, recipient, at) ==
    IF vc_id \notin DOMAIN consents THEN FALSE
    ELSE LET vc == consents[vc_id] IN
         IF at > vc.expiration_date THEN FALSE
         ELSE IF vc.credential_subject.consentTerms.recipient # recipient
              THEN FALSE
         ELSE IF ~vc.credential_subject.consentGiven THEN FALSE
         ELSE VerifyProof(vc)

\* get_transaction_status against given registries: None for an unknown id
TransactionStatus(escrows, consents, transaction_id) ==
    IF transaction_id \notin DOMAIN transactions
    THEN None
    ELSE LET transaction == transactions[transaction_id]
             offer == offers[transaction.offer_id]
         IN Some([transactionId |-> transaction.transaction_id,
                  offerId |-> transaction.offer_id,
                  patientDid |-> transaction.patient_did,
                  status |-> transaction.status,
                  createdAt |-> transaction.created_at,
                  completedAt |-> transaction.completed_at,
                  consentValid |-> VerifyConsent(consents,
                                      transaction.consent_id, offer.requester,
                                      now),
                  escrowStatus |-> GetEscrowStatus(escrows,
                                                   transaction.escrow_id)])

GetTransactionStatus(transaction_id) ==
    /\ last_call' = PlatformCall("get_transaction_status", <<transaction_id>>,
           IF transaction_id \in DOMAIN transactions
           THEN transactions[transaction_id].escrow_id ELSE "",
           TRUE,
           TransactionStatus(active_escrows, active_consents, transaction_id))
    /\ UNCHANGED <<now, active_escrows, escrow_history, threads, platform>>

\* the clock of the orchestrator advances
TickPlatform == Elapse(PlatformMaxTime)

\* the orchestrator's operations
NextPlatform ==
    \/ TickPlatform
    \/ \E requester \in Requesters, data_types \in DataTypes,
          purpose \in Purposes, compensation \in Amounts,
          valid_days \in ValidDays :
         CreateDataOffer(requester, data_types, purpose, compensation, valid_days)
    \/ \E offer_id \in CallOfferIds, patient_did \in Patients,
          payee \in Payees, payer \in Payers :
         AcceptOffer(offer_id, patient_did, payee, payer)
    \/ \E transaction_id \in CallTransactionIds, seq \in XrplSequences :
         CompleteDataDelivery(transaction_id, seq)
    \/ \E consent_id \in ConsentIds, patient_did \in WithdrawCallers :
         WithdrawConsent(consent_id, patient_did)
    \/ \E transaction_id \in CallTransactionIds :
         GetTransactionStatus(transaction_id)

SpecPlatform == Init /\ [][NextPlatform]_vars

\* the orchestrator with offers of any compensation
NextAccept ==
    \/ TickPlatform
    \/ \E requester \in Requesters, data_types \in DataTypes,
          purpose \in Purposes, compensation \in Compensations,
          valid_days \in ValidDays :
         CreateDataOffer(requester, data_types, purpose, compensation, valid_days)
    \/ \E offer_id \in CallOfferIds, patient_did \in Patients,
          payee \in Payees, payer \in Payers :
         AcceptOffer(offer_id, patient_did, payee, payer)
    \/ \E consent_id \in ConsentIds, patient_did \in WithdrawCallers :
         WithdrawConsent(consent_id, patient_did)

SpecAccept == Init /\ [][NextAccept]_vars

\* accept_offer called again after it raised: _generate_uuid and the bundle
\* id generator hand out a fresh id at every call
RetryConsentIds == ConsentIds \cup {"consent2"}
RetryBundleIds == BundleIds \cup {"bundle_2"}

NextRetry ==
    \/ TickPlatform
    \/ \E requester \in Requesters, data_types \in DataTypes,
          purpose \in Purposes, compensation \in Compensations,
          valid_days \in ValidDays :
         CreateDataOffer(requester, data_types, purpose, compensation, valid_days)
    \/ \E offer_id \in CallOfferIds, patient_did \in Patients,
          payee \in Payees, payer \in Payers :
         AcceptOfferFrom(RetryConsentIds, RetryBundleIds, offer_id,
                         patient_did, payee, payer)

SpecRetry == Init /\ [][NextRetry]_vars

(***************************************************************************)
(* Properties of the escrow engine.                                        *)

(***************************************************************************)
(* Part IV.  The credential service on its own: ConsentManager called      *)
(* directly, with create_consent_vc (issue), withdraw_consent (revoke)     *)
(* and verify_consent (verify).                                            *)
(***************************************************************************)
\* the ids _generate_uuid hands out
VcIds == ConsentIds \cup {"consent2"}
\* the recipients verify_consent is asked about
VerifyRecipients == Requesters \cup {"did:intruder"}

\* ConsentTerms as create_consent_vc reads them
ConsentTerms(recipient, valid_days) ==
    [requester |-> recipient,
     purpose |-> "research",
     data_types |-> <<"Observation">>,
     collection_period |-> "3months",
     retention_period |-> "5years",
     third_party_sharing |-> FALSE,
     compensation |-> 50,
     valid_until |-> now + valid_days]

\* the record of a call of the credential service, with the store at entry
ConsentCall(op, args, ok) ==
    [op |-> op, escrow_id |-> "", args |-> args, at |-> now,
     pre |-> Some(active_consents), ok |-> ok, tx |-> None]

\* the ids of all credentials issued so far
IssuedIds == {consent_history[i].consentId : i \in DOMAIN consent_history}

\* create_consent_vc
IssueConsent(patient_did, recipient, valid_days) ==
    /\ \E vc_id \in VcIds \ IssuedIds :
         /\ active_consents' = (vc_id :> CreateConsentVc(vc_id, patient_did,
                                    ConsentTerms(recipient, valid_days)))
                               @@ active_consents
         /\ consent_history' = Append(consent_history,
                ConsentLogEntry("CREATED", vc_id, patient_did, recipient))
         /\ last_call' = ConsentCall("create_consent_vc", <<vc_id, recipient>>, TRUE)
    /\ UNCHANGED <<now, active_escrows, escrow_history, threads, offers,
                   transactions, bundles, audit_events, audit_index>>

\* ConsentManager.withdraw_consent
RevokeConsent(vc_id, patient_did) ==
    /\ IF ConsentWithdrawable(vc_id, patient_did)
       THEN /\ active_consents' = [c \in DOMAIN active_consents \ {vc_id}
                                      |-> active_consents[c]]
            /\ consent_history' = Append(consent_history,
                   ConsentLogEntry("WITHDRAWN", vc_id, patient_did,
                       active_consents[vc_id].credential_subject
                           .consentTerms.recipient))
       ELSE UNCHANGED <<active_consents, consent_history>>
    /\ last_call' = ConsentCall("withdraw_consent", <<vc_id, patient_did>>,
                                ConsentWithdrawable(vc_id, patient_did))
    /\ UNCHANGED <<now, active_escrows, escrow_history, threads, offers,
                   transactions, bundles, audit_events, audit_index>>

\* ConsentManager.verify_consent
CheckConsent(vc_id, recipient) ==
    /\ last_call' = ConsentCall("verify_consent", <<vc_id, recipient>>,
                        VerifyConsent(active_consents, vc_id, recipient, now))
    /\ UNCHANGED <<now, active_escrows, escrow_history, threads, platform>>

NextConsent ==
    \/ Tick
    \/ \E patient_did \in Patients, recipient \in Requesters,
          valid_days \in ValidDays :
         IssueConsent(patient_did, recipient, valid_days)
    \/ \E vc_id \in VcIds, patient_did \in WithdrawCallers :
         RevokeConsent(vc_id, patient_did)
    \/ \E vc_id \in VcIds, recipient \in VerifyRecipients :
         CheckConsent(vc_id, recipient)

SpecConsent == Init /\ [][NextConsent]_vars

(***************************************************************************)
(* Part V.  The escrow engine with several escrows: create_escrow_offer,   *)
(* lock_escrow_funds and cancel_escrow on a registry that can hold two.    *)
(***************************************************************************)
\* the ids _generate_id hands out when it is called twice
TwoEscrowIds == EscrowIds \cup {"escrow_2"}

\* create_escrow_offer, drawing its id among two
OpenEscrow(payer, payee, amount, consent, hash, window) ==
    CreateEscrowOfferFrom(TwoEscrowIds, payer, payee, amount, consent, hash, window)

NextOpen ==
    \/ Tick
    \/ \E payer \in Payers, payee \in Payees, amount \in Amounts,
          consent \in ConsentIds, hash \in BundleHashes,
          window \in DeliveryWindows :
         OpenEscrow(payer, payee, amount, consent, hash, window)
    \/ \E id \in TwoEscrowIds, seq \in XrplSequences : LockEscrowFunds(id, seq)
    \/ \E id \in TwoEscrowIds : CancelEscrow(id)

SpecOpen == Init /\ [][NextOpen]_vars

(***************************************************************************)
(* Part VI.  The audit manager called directly: record_audit_event,        *)
(* record_data_access, record_xrpl_transaction, get_audit_trail,           *)
(* verify_data_integrity and export_audit_data, beside the orchestrator.   *)
(***************************************************************************)
\* bytes.fromhex(text).decode('utf-8') followed by json.loads: defined on
\* what _hex_encode(json.dumps(x)) produces, failure on anything else
Decodable(text) == Len(text) = 2 /\ text[1] = "HEX"
HexDecode(text) == text[2]

\* an insertion that keeps the list in descending order of timestamp
InsertByTimestampDescending(sorted, e) ==
    LET k == Cardinality({i \in DOMAIN sorted :
                             sorted[i].timestamp >= e.timestamp})
    IN SubSeq(sorted, 1, k) \o <<e>> \o SubSeq(sorted, k + 1, Len(sorted))

\* an insertion that puts e before the events of its own timestamp
InsertByTimestampBeforeEqual(sorted, e) ==
    LET k == Cardinality({i \in DOMAIN sorted :
                             sorted[i].timestamp < e.timestamp})
    IN SubSeq(sorted, 1, k) \o <<e>> \o SubSeq(sorted, k + 1, Len(sorted))

\* list.sort(key=timestamp) puts e into a sorted list: after the events that
\* are not later than it (the sort is stable)
InsertByTimestamp(sorted, e) ==
    LET k == Cardinality({i \in DOMAIN sorted :
                             sorted[i].timestamp <= e.timestamp})
    IN SubSeq(sorted, 1, k) \o <<e>> \o SubSeq(sorted, k + 1, Len(sorted))

\* list.sort(key=lambda x: x.timestamp)
RECURSIVE SortByTimestamp(_)
SortByTimestamp(events) ==
    IF events = <<>>
    THEN <<>>
    ELSE InsertByTimestamp(SortByTimestamp(SubSeq(events, 1, Len(events) - 1)),
                           events[Len(events)])

\* AuditTrailManager._event_to_dict
EventToDict(e) ==
    [eventId |-> e.event_id, eventType |-> e.event_type,
     timestamp |-> e.timestamp, actor |-> e.actor, subject |-> e.subject,
     resourceId |-> e.resource_id, xrplTxHash |-> e.xrpl_tx_hash,
     metadata |-> e.metadata, complianceStatus |-> e.compliance_status]

\* get_audit_trail: a filter is applied when its argument is truthy; subject
\* and resource_id "" stand for None and for the empty string, start_date
\* and end_date are None or a time
AuditTrail(events, subject, resource_id, start_date, end_date) ==
    LET Keep(e) ==
            /\ subject # "" => e.subject = subject
            /\ resource_id # "" => e.resource_id = resource_id
            /\ start_date # None => e.timestamp >= start_date[1]
            /\ end_date # None => e.timestamp <= end_date[1]
        filtered_events == SortByTimestamp(SelectSeq(events, Keep))
    IN [i \in DOMAIN filtered_events |-> EventToDict(filtered_events[i])]

\* a verify_data_integrity that does not look into the transaction index
DataIntegrityUnindexed(events, index, resource_id) ==
    LET Related(e) == e.resource_id = resource_id
        related_events == SortByTimestamp(SelectSeq(events, Related))
        checks == [i \in DOMAIN related_events |->
                     [eventId |-> related_events[i].event_id,
                      timestamp |-> related_events[i].timestamp,
                      valid |-> TRUE, issues |-> {}]]
    IN IF related_events = <<>>
       THEN [valid |-> FALSE, reason |-> "No audit trail found"]
       ELSE [resourceId |-> resource_id, valid |-> TRUE,
             eventCount |-> Len(related_events), checks |-> checks,
             verifiedAt |-> now]

\* verify_data_integrity
DataIntegrity(events, index, resource_id) ==
    LET Related(e) == e.resource_id = resource_id
        related_events == SortByTimestamp(SelectSeq(events, Related))
        Issues(i) ==
            LET event == related_events[i] IN
            (IF event.xrpl_tx_hash # None /\ event.xrpl_tx_hash[1] # ""
                /\ event.xrpl_tx_hash[1] \notin DOMAIN index
             THEN {"Missing XRPL transaction"} ELSE {})
            \cup
            (IF i > 1 /\ event.timestamp < related_events[i - 1].timestamp
             THEN {"Invalid timestamp order"} ELSE {})
        checks == [i \in DOMAIN related_events |->
                     [eventId |-> related_events[i].event_id,
                      timestamp |-> related_events[i].timestamp,
                      valid |-> Issues(i) = {},
                      issues |-> Issues(i)]]
    IN IF related_events = <<>>
       THEN [valid |-> FALSE, reason |-> "No audit trail found"]
       ELSE [resourceId |-> resource_id,
             valid |-> \A i \in DOMAIN checks : checks[i].valid,
             eventCount |-> Len(related_events),
             checks |-> checks,
             verifiedAt |-> now]

\* export_audit_data for format "json": the data it serialises
AuditExport(include_xrpl_data) ==
    [platformDid |-> PlatformDid,
     exportedAt |-> now,
     auditEvents |-> [i \in DOMAIN audit_events |-> EventToDict(audit_events[i])],
     accessLogs |-> access_logs,
     xrplTransactions |-> IF include_xrpl_data
                          THEN Some(xrpl_transactions) ELSE None]

\* the arguments the audit manager is called with
AuditKinds == {"consent_created"}
AuditMetadata ==
    {[purpose |-> "research", dataTypes |-> <<"Observation">>,
      retentionPeriod |-> "5years", recipient |-> "did:requester"]}
TxHashes == {"TX1"}
\* ledger transactions: one whose memo names a consent, one whose memo is
\* not hexadecimal text
TxData ==
    {[Account |-> "rPayee",
      Memos |-> <<[Memo |-> [MemoData |-> HexEncode(
                      [EscrowID |-> "escrow_1", ConsentID |-> "consent1"])]]>>],
     [Account |-> "rPayee",
      Memos |-> <<[Memo |-> [MemoData |-> <<"RAW", "zz">>]]>>]}
\* the filters get_audit_trail is called with: subject and resource id
\* ("" for none), and the time range as <<start_date, end_date>>
SubjectFilters == {""} \cup Patients
ResourceFilters == ConsentIds
DateRanges == {<<None, None>>, <<Some(1), Some(1)>>}

\* the ledger sequence the orchestrator finishes an escrow with
AuditSequences == {12345}

\* the log is short enough for a direct call that adds n events
DirectRoom(n) == Len(audit_events) + n <= MaxDirect

\* the record of a call of the audit manager and what it returned
AuditCall(op, args, result) ==
    [op |-> op, escrow_id |-> "", args |-> args, at |-> now,
     pre |-> None, ok |-> TRUE, tx |-> Some(result)]

\* _extract_audit_info_from_memo, memo by memo: a memo that decodes to an
\* object with a ConsentID gives a DATA_DELIVERED event, any other is skipped
RECURSIVE ExtractAuditInfoFromMemo(_, _, _, _)
ExtractAuditInfoFromMemo(events, tx_hash, tx_data, memos) ==
    IF memos = <<>>
    THEN events
    ELSE LET memo == Head(memos)
             readable == /\ "Memo" \in DOMAIN memo
                         /\ "MemoData" \in DOMAIN memo.Memo
                         /\ Decodable(memo.Memo.MemoData)
             memo_json == HexDecode(memo.Memo.MemoData)
         IN ExtractAuditInfoFromMemo(
                IF readable /\ "ConsentID" \in DOMAIN memo_json
                THEN RecordAuditEventTx(events, "data_delivered",
                         IF "Account" \in DOMAIN tx_data
                         THEN tx_data.Account ELSE "unknown",
                         "extracted_from_memo", memo_json.ConsentID,
                         Some(tx_hash), memo_json)
                ELSE events,
                tx_hash, tx_data, Tail(memos))

\* record_audit_event called directly
AppendAuditEvent(kind, actor, subject, resource, tx_hash, metadata) ==
    /\ DirectRoom(1)
    /\ audit_events' = RecordAuditEventTx(audit_events, kind, actor, subject,
                                          resource, tx_hash, metadata)
    /\ last_call' = AuditCall("record_audit_event", <<kind, resource>>,
                              <<"audit", Len(audit_events) + 1>>)
    /\ UNCHANGED <<now, active_escrows, escrow_history, threads, offers,
                   transactions, active_consents, consent_history, bundles,
                   audit_index>>

RecordDataAccess(consent_id, accessor, data_subject, data_types, purpose) ==
    /\ DirectRoom(1)
    /\ access_logs' = Append(access_logs,
           [access_id |-> <<"access", Len(access_logs) + 1>>,
            consent_id |-> consent_id, accessor |-> accessor,
            data_subject |-> data_subject, data_types |-> data_types,
            access_time |-> now, access_purpose |-> purpose,
            ip_address |-> None, user_agent |-> None])
    /\ audit_events' = RecordAuditEventTx(audit_events, "access_granted",
           accessor, data_subject, consent_id, None,
           [accessId |-> <<"access", Len(access_logs) + 1>>,
            dataTypes |-> data_types, purpose |-> purpose])
    /\ last_call' = AuditCall("record_data_access", <<consent_id, accessor>>,
                              <<"access", Len(access_logs) + 1>>)
    /\ UNCHANGED <<now, active_escrows, escrow_history, threads, offers,
                   transactions, active_consents, consent_history, bundles,
                   xrpl_transactions>>

RecordXrplTransaction(tx_hash, tx_data, related_event_id) ==
    LET memos == IF "Memos" \in DOMAIN tx_data THEN tx_data.Memos ELSE <<>>
        entry == [txHash |-> tx_hash, txData |-> tx_data,
                  recordedAt |-> now, relatedEventId |-> related_event_id]
    IN /\ DirectRoom(Len(memos))
       /\ xrpl_transactions' =
              [h \in DOMAIN xrpl_transactions \cup {tx_hash} |->
                  IF h = tx_hash THEN entry ELSE xrpl_transactions[h]]
       /\ audit_events' = ExtractAuditInfoFromMemo(audit_events, tx_hash,
                                                   tx_data, memos)
       /\ last_call' = AuditCall("record_xrpl_transaction", <<tx_hash>>, None)
       /\ UNCHANGED <<now, active_escrows, escrow_history, threads, offers,
                      transactions, active_consents, consent_history, bundles,
                      access_logs>>

GetAuditTrail(subject, resource_id, start_date, end_date) ==
    /\ last_call' = AuditCall("get_audit_trail",
           <<subject, resource_id, start_date, end_date>>,
           AuditTrail(audit_events, subject, resource_id, start_date, end_date))
    /\ UNCHANGED <<now, active_escrows, escrow_history, threads, platform>>

VerifyDataIntegrity(resource_id) ==
    /\ last_call' = AuditCall("verify_data_integrity", <<resource_id>>,
           DataIntegrity(audit_events, xrpl_transactions, resource_id))
    /\ UNCHANGED <<now, active_escrows, escrow_history, threads, platform>>

\* export_audit_data: any format but json raises
ExportAuditData(format, include_xrpl_data) ==
    /\ last_call' = IF format = "json"
                    THEN AuditCall("export_audit_data",
                                   <<format, include_xrpl_data>>,
                                   AuditExport(include_xrpl_data))
                    ELSE [AuditCall("export_audit_data",
                                    <<format, include_xrpl_data>>, None)
                          EXCEPT !.ok = FALSE]
    /\ UNCHANGED <<now, active_escrows, escrow_history, threads, platform>>

\* the clock of the audit manager advances
TickAudit == Elapse(MaxAuditTime)

\* the audit manager's operations, and the orchestrator's
NextAudit ==
    \/ TickAudit
    \/ \E kind \in AuditKinds, subject \in Patients, resource \in ConsentIds,
          metadata \in AuditMetadata :
         AppendAuditEvent(kind, subject, subject, resource, None, metadata)
    \/ \E consent_id \in ConsentIds, accessor \in Requesters,
          data_subject \in Patients, data_types \in DataTypes,
          purpose \in Purposes :
         RecordDataAccess(consent_id, accessor, data_subject, data_types, purpose)
    \/ \E tx_hash \in TxHashes, tx_data \in TxData :
         RecordXrplTransaction(tx_hash, tx_data, None)
    \/ \E subject \in SubjectFilters, resource_id \in ResourceFilters,
          range \in DateRanges :
         GetAuditTrail(subject, resource_id, range[1], range[2])
    \/ \E resource_id \in ConsentIds : VerifyDataIntegrity(resource_id)
    \/ \E format \in {"json", "xml"} : ExportAuditData(format, TRUE)
    \/ \E requester \in Requesters, data_types \in DataTypes,
          purpose \in Purposes, compensation \in Amounts :
         CreateDataOffer(requester, data_types, purpose, compensation, 1)
    \/ \E offer_id \in OfferIds, patient_did \in Patients,
          payee \in Payees, payer \in Payers :
         AcceptOffer(offer_id, patient_did, payee, payer)
    \/ \E transaction_id \in TransactionIds, seq \in AuditSequences :
         CompleteDataDelivery(transaction_id, seq)
    \/ \E consent_id \in ConsentIds, patient_did \in Patients :
         WithdrawConsent(consent_id, patient_did)

SpecAudit == Init /\ [][NextAudit]_vars

(***************************************************************************)
(* Part VIII.  record_audit_event called with events of several kinds and  *)
(* with metadata that carries any of the fields _check_compliance asks     *)
(* for.                                                                    *)
(***************************************************************************)
\* required_fields of _check_compliance
RequiredFields == {"purpose", "dataTypes", "retentionPeriod", "recipient"}
\* the metadata of the calls: any of the required fields, none (None or {})
\* included
ComplianceMetadata ==
    {[field \in fields |-> "value"] : fields \in SUBSET RequiredFields}
ComplianceKinds == {"consent_created", "data_requested", "access_granted"}

NextCompliance ==
    \/ TickAudit
    \/ \E kind \in ComplianceKinds, subject \in Patients,
          resource \in ConsentIds, metadata \in ComplianceMetadata :
         AppendAuditEvent(kind, subject, subject, resource, None, metadata)

SpecCompliance == Init /\ [][NextCompliance]_vars

(***************************************************************************)
(* Part VII.  The read operations of the audit manager, get_audit_trail    *)
(* and verify_data_integrity, on a stored log: audit_events and            *)
(* xrpl_transactions hold any short list of events, in any order of        *)
(* timestamps, and either index.                                           *)
(***************************************************************************)
\* largest length of a stored log
MaxStored == 3
\* the timestamps of stored events
StoredTimes == {0, 1}
\* subject, resource id and ledger transaction hash of stored events
StoredProfiles ==
    {<<"did:patient", "consent1", None>>,
     <<"did:other", "consent1", Some("TX1")>>,
     <<"did:patient", "consent2", None>>}

\* the AuditEvent stored at place i, with timestamp t and profile p
StoredEvent(i, t, p) ==
    [event_id |-> <<"audit", i>>, event_type |-> "access_granted",
     timestamp |-> t, actor |-> p[1], subject |-> p[1], resource_id |-> p[2],
     xrpl_tx_hash |-> p[3], metadata |-> <<>>,
     compliance_status |-> CheckCompliance("access_granted", <<>>)]

\* the logs self.audit_events may hold
StoredLogs ==
    UNION {{[i \in 1 .. n |-> StoredEvent(i, f[i][1], f[i][2])] :
               f \in [1 .. n -> StoredTimes \X StoredProfiles]} :
           n \in 0 .. MaxStored}

\* the indexes self.xrpl_transactions may hold: empty, or TX1 recorded
StoredIndexes ==
    {<<>>,
     [h \in TxHashes |-> [txHash |-> h, txData |-> [Account |-> "rPayee"],
                          recordedAt |-> 0, relatedEventId |-> None]]}

\* the filters of a query on a stored log
StoreSubjects == {"", "did:patient"}
StoreResources == {"", "consent1"}

InitStore ==
    /\ now = 0
    /\ active_escrows = <<>>
    /\ escrow_history = <<>>
    /\ last_call = NoCall
    /\ threads = [t \in Threads |-> Idle]
    /\ offers = <<>>
    /\ transactions = <<>>
    /\ active_consents = <<>>
    /\ consent_history = <<>>
    /\ bundles = <<>>
    /\ audit_events \in StoredLogs
    /\ access_logs = <<>>
    /\ xrpl_transactions \in StoredIndexes

NextStore ==
    \/ TickAudit
    \/ \E subject \in StoreSubjects, resource_id \in StoreResources,
          range \in DateRanges :
         GetAuditTrail(subject, resource_id, range[1], range[2])
    \/ \E resource_id \in ConsentIds : VerifyDataIntegrity(resource_id)

SpecStore == InitStore /\ [][NextStore]_vars

(***************************************************************************)
\* the terminal states of the escrow lifecycle
TerminalStatus == {"fulfilled", "expired", "cancelled"}

\* the log entries of one action on one escrow
Logged(action, id) ==
    {i \in DOMAIN escrow_history :
        escrow_history[i].action = action /\ escrow_history[i].escrowId = id}

\* the last call was op on an escrow the registry held at entry
LastCallOn(op) == last_call.op = op /\ last_call.pre # None

PreStatus == last_call.pre[1].status
PreExpiry == last_call.pre[1].expires_at
CurrentEscrow == active_escrows[last_call.escrow_id]

\* C1: once an escrow's status is FULFILLED, EXPIRED or CANCELLED, no step
\* (lock, fulfill or cancel, at any clock value) changes that status.
TerminalStatesImmutable ==
    [][\A id \in DOMAIN active_escrows :
          active_escrows[id].status \in TerminalStatus
              => active_escrows'[id].status = active_escrows[id].status]_vars

\* C2: for every escrow at most one fulfill returns success (fulfill_escrow
\* logs FULFILLED exactly when it returns its settlement record), and a
\* fulfill or a complete_data_delivery attempted on an escrow that is already
\* FULFILLED returns failure.
AtMostOneFulfillSucceeds ==
    /\ \A id \in DOMAIN active_escrows : Cardinality(Logged("FULFILLED", id)) <= 1
    /\ LastCallOn("fulfill") /\ PreStatus = "fulfilled" => ~last_call.ok
    /\ LastCallOn("complete_data_delivery") /\ PreStatus = "fulfilled"
           => ~last_call.ok

\* C3: no escrow has both a successful fulfill and a successful cancel in
\* its history (cancel_escrow logs CANCELLED exactly when it succeeds).
FulfillAndCancelExclusive ==
    \A id \in DOMAIN active_escrows :
        Logged("FULFILLED", id) = {} \/ Logged("CANCELLED", id) = {}

\* C4: for an escrow whose expiry has not passed, fulfill returns success iff
\* the escrow is LOCKED, the supplied content digest equals the bound one and
\* the digest of the supplied secret equals the commitment; when LOCKED and
\* exactly one of the two mismatches, fulfill fails and the escrow stays LOCKED.
FulfillIffConditionsHold ==
    LastCallOn("fulfill") /\ last_call.at <= PreExpiry =>
        LET locked == PreStatus = "locked"
            digestOk == last_call.args[1] = last_call.pre[1].data_condition.fhir_bundle_hash
            secretOk == Sha256HexUpper(last_call.args[2])
                            = last_call.pre[1].data_condition.preimage_hash
        IN /\ last_call.ok <=> (locked /\ digestOk /\ secretOk)
           /\ last_call.ok => CurrentEscrow.status = "fulfilled" /\ last_call.tx # None
           /\ locked /\ (digestOk # secretOk) =>
                  /\ ~last_call.ok
                  /\ last_call.tx = None
                  /\ CurrentEscrow = last_call.pre[1]

\* C4 witness: a fulfill before expiry on a LOCKED escrow with the bound
\* content digest and a wrong secret has failed.
FulfillSingleMismatchSeen ==
    /\ LastCallOn("fulfill") /\ last_call.at <= PreExpiry
    /\ PreStatus = "locked"
    /\ last_call.args[1] = last_call.pre[1].data_condition.fhir_bundle_hash
    /\ Sha256HexUpper(last_call.args[2]) # last_call.pre[1].data_condition.preimage_hash
    /\ ~last_call.ok

\* C5: fulfill on a LOCKED escrow when now > expiry returns failure with no
\* settlement record and moves the escrow to EXPIRED, whatever was supplied.
FulfillAfterExpiryExpires ==
    LastCallOn("fulfill") /\ PreStatus = "locked" /\ last_call.at > PreExpiry =>
        /\ ~last_call.ok
        /\ last_call.tx = None
        /\ CurrentEscrow.status = "expired"
        /\ CurrentEscrow = [last_call.pre[1] EXCEPT !.status = "expired"]

\* C5 witness: a fulfill after expiry on a LOCKED escrow, with the bound
\* content digest and the right secret, has been made.
FulfillAfterExpirySeen ==
    /\ LastCallOn("fulfill") /\ PreStatus = "locked" /\ last_call.at > PreExpiry
    /\ last_call.args[1] = last_call.pre[1].data_condition.fhir_bundle_hash
    /\ Sha256HexUpper(last_call.args[2]) = last_call.pre[1].data_condition.preimage_hash

\* C6: cancel on any escrow while now <= expiry returns failure, yields no
\* refund instruction and leaves the escrow unchanged.
CancelBeforeExpiryFails ==
    LastCallOn("cancel") /\ last_call.at <= PreExpiry =>
        /\ ~last_call.ok
        /\ last_call.tx = None
        /\ CurrentEscrow = last_call.pre[1]

\* C6 witness: a cancel at the very expiry time of a LOCKED escrow.
CancelAtExpirySeen ==
    LastCallOn("cancel") /\ last_call.at = PreExpiry /\ PreStatus = "locked"

\* C7: lock returns true and moves the escrow to LOCKED, recording the
\* external reference, only when the escrow is CREATED; in any other status
\* it returns false and leaves status and external reference unchanged.
LockOnlyFromCreated ==
    LastCallOn("lock") =>
        IF PreStatus = "created"
        THEN /\ last_call.ok
             /\ CurrentEscrow.status = "locked"
             /\ CurrentEscrow.xrpl_sequence = Some(last_call.args[1])
        ELSE /\ ~last_call.ok
             /\ CurrentEscrow.status = PreStatus
             /\ CurrentEscrow.xrpl_sequence = last_call.pre[1].xrpl_sequence

\* C8: cancel on an escrow already in a terminal state returns failure,
\* yields no refund instruction and leaves the status unchanged; of the
\* cancel calls made on one escrow at most one succeeds.
CancelOnTerminalFails ==
    /\ LastCallOn("cancel") /\ PreStatus \in TerminalStatus =>
          /\ ~last_call.ok
          /\ last_call.tx = None
          /\ CurrentEscrow.status = PreStatus
    /\ \A id \in DOMAIN active_escrows : Cardinality(Logged("CANCELLED", id)) <= 1

(***************************************************************************)
(* Properties of concurrent calls (SpecConc).                              *)
(***************************************************************************)
\* thread t has returned from a call of op that it entered while escrow id
\* was LOCKED
ReturnedFrom(t, op, id) ==
    /\ threads[t].pc = "done"
    /\ threads[t].op = op
    /\ threads[t].escrow_id = id
    /\ threads[t].entry # None
    /\ threads[t].entry[1].status = "locked"

\* the fulfill of thread t carries the bound content digest and the secret
RightCondition(t, id) ==
    /\ threads[t].args[1] = active_escrows[id].data_condition.fhir_bundle_hash
    /\ Sha256HexUpper(threads[t].args[2]) = active_escrows[id].data_condition.preimage_hash

ThreadOk(t) == threads[t].result[1].ok

\* C9: two concurrent fulfill calls on the same LOCKED escrow, both with the
\* bound content digest and the correct secret (and both before expiry),
\* result in exactly one FULFILLED transition and one failure.
ConcurrentFulfillsOneWins ==
    \A id \in DOMAIN active_escrows :
        /\ ReturnedFrom("t1", "fulfill", id) /\ RightCondition("t1", id)
        /\ ReturnedFrom("t2", "fulfill", id) /\ RightCondition("t2", id)
        /\ now <= active_escrows[id].expires_at
        => /\ ThreadOk("t1") # ThreadOk("t2")
           /\ Cardinality(Logged("FULFILLED", id)) = 1

\* C10: when a fulfill and a cancel on the same LOCKED escrow run
\* concurrently while the clock advances past expiry (both enter at or
\* before the expiry time, both have returned after it), exactly one of them
\* commits its transition (writes the status); the other returns failure,
\* and the status is the one the committing call set.
ConcurrentFulfillCancelOneCommits ==
    \A id \in DOMAIN active_escrows :
        /\ ReturnedFrom("t1", "fulfill", id) /\ RightCondition("t1", id)
        /\ ReturnedFrom("t2", "cancel", id)
        /\ threads["t1"].entry[1].in_time
        /\ threads["t2"].entry[1].in_time
        /\ now > active_escrows[id].expires_at
        => /\ threads["t1"].wrote # threads["t2"].wrote
           /\ ~threads["t1"].wrote => ~ThreadOk("t1")
           /\ ~threads["t2"].wrote => ~ThreadOk("t2")
           /\ ThreadOk("t1") => active_escrows[id].status = "fulfilled"

(***************************************************************************)
(* Properties of the orchestrator and its managers (SpecPlatform).         *)
(***************************************************************************)
\* secrets an escrow could hold in place of the one it holds
TwinPreimages == {"cd"}

\* the registry in which escrow id holds the secret p, and nothing else
\* differs
WithSecret(escrows, id, p) ==
    [escrows EXCEPT ![id].data_condition.preimage = p,
                    ![id].data_condition.preimage_hash = Sha256HexUpper(p)]

\* the registry without escrow id
Without(escrows, id) == [k \in DOMAIN escrows \ {id} |-> escrows[k]]

\* C11: before an escrow is fulfilled, what get_escrow_status,
\* get_xrpl_memo_data and get_transaction_status return is the same whichever
\* secret the escrow holds (so none of them contains it), and the create
\* envelope of two escrows that differ only in their secret differs at most
\* in the field Condition, which holds the digest of the secret.
SecretNeverExposed ==
    \A id \in DOMAIN active_escrows :
      Logged("FULFILLED", id) = {} =>
        \A p \in TwinPreimages :
          LET twin == WithSecret(active_escrows, id, p) IN
          /\ GetEscrowStatus(twin, id) = GetEscrowStatus(active_escrows, id)
          /\ GetXrplMemoData(twin, id) = GetXrplMemoData(active_escrows, id)
          /\ \A t \in DOMAIN transactions :
                TransactionStatus(twin, active_consents, t)
                    = TransactionStatus(active_escrows, active_consents, t)
          /\ /\ last_call.op = "get_transaction_status"
             /\ last_call.at = now
             => last_call.tx = TransactionStatus(twin, active_consents,
                                                 last_call.args[1])
          /\ /\ last_call.op = "accept_offer"
             /\ last_call.ok
             /\ last_call.escrow_id = id
             => LET envelope == last_call.tx[1]
                    other == BuildEscrowCreateTransaction(
                                 Without(active_escrows, id), twin[id])
                IN /\ \A k \in DOMAIN envelope \ {"Condition"} :
                          envelope[k] = other[k]
                   /\ envelope.Condition = Sha256HexUpper(
                          active_escrows[id].data_condition.preimage)

\* a transaction status was returned for an escrow that is not fulfilled
SecretNeverExposedSeen ==
    /\ last_call.op = "get_transaction_status"
    /\ last_call.tx # None
    /\ last_call.at = now
    /\ last_call.escrow_id \in DOMAIN active_escrows
    /\ Logged("FULFILLED", last_call.escrow_id) = {}
    /\ last_call.tx[1].escrowStatus # None

(***************************************************************************)
(* Properties of the credential service (SpecConsent).                     *)
(***************************************************************************)
\* the last call was op of the credential service on a credential the store
\* held at entry
LastConsentCallOn(op) ==
    /\ last_call.op = op
    /\ last_call.pre # None
    /\ last_call.args[1] \in DOMAIN last_call.pre[1]

\* the credential the last call of the credential service was about
PreCredential == last_call.pre[1][last_call.args[1]]

Recipient(vc) == vc.credential_subject.consentTerms.recipient

\* C12: a credential that was issued and not revoked, verified with its own
\* recipient before its expiration, verifies true; the digest recomputed at
\* verification (proof excluded) is the digest that was signed at issuance.
IssuedCredentialVerifies ==
    /\ /\ LastConsentCallOn("verify_consent")
       /\ last_call.args[2] = Recipient(PreCredential)
       /\ last_call.at < PreCredential.expiration_date
       => last_call.ok
    /\ \A vc_id \in DOMAIN active_consents :
          LET vc == active_consents[vc_id] IN
          vc.proof[1].signatureValue
              = RsaSign(Sha256(WithoutProof(VcToDict(vc))))

\* the ids of the credentials revoked so far
RevokedIds == {consent_history[i].consentId :
                  i \in {j \in DOMAIN consent_history :
                            consent_history[j].action = "WITHDRAWN"}}

\* C13: after revoke succeeded for a credential, verify of that credential
\* returns false for every recipient, in every later state.
RevokedNeverVerifies ==
    /\ \A vc_id \in RevokedIds, recipient \in VerifyRecipients :
          ~VerifyConsent(active_consents, vc_id, recipient, now)
    /\ last_call.op = "verify_consent" /\ last_call.args[1] \in RevokedIds
          => ~last_call.ok

\* verify was called on a revoked credential with the recipient it named
RevokedVerifySeen ==
    /\ last_call.op = "verify_consent"
    /\ \E i \in DOMAIN consent_history :
          /\ consent_history[i].action = "WITHDRAWN"
          /\ consent_history[i].consentId = last_call.args[1]
          /\ consent_history[i].recipient = last_call.args[2]
    /\ ~last_call.ok

RevokeOnlyBySubject ==
    [][/\ last_call'.op = "withdraw_consent"
       /\ last_call' # last_call
       /\ last_call'.args[1] \in DOMAIN active_consents
       => LET vc == active_consents[last_call'.args[1]] IN
          /\ last_call'.ok => vc.credential_subject.id = last_call'.args[2]
          /\ vc.credential_subject.id # last_call'.args[2] =>
                /\ ~last_call'.ok
                /\ active_consents' = active_consents
                /\ consent_history' = consent_history
                /\ \A recipient \in VerifyRecipients :
                      VerifyConsent(active_consents', last_call'.args[1],
                                    recipient, now')
                        = VerifyConsent(active_consents, last_call'.args[1],
                                        recipient, now)]_vars

\* somebody other than the subject asked to revoke a credential in the store
RevokeByOtherSeen ==
    /\ LastConsentCallOn("withdraw_consent")
    /\ PreCredential.credential_subject.id # last_call.args[2]
    /\ ~last_call.ok
    /\ last_call.args[1] \in DOMAIN active_consents

\* C17: no credential is ever deleted: every credential that was issued is
\* still held by the store, the revoked ones included.
CredentialsNeverDeleted ==
    /\ IssuedIds \subseteq DOMAIN active_consents
    /\ \A vc_id \in RevokedIds :
          /\ vc_id \in DOMAIN active_consents
          /\ ~active_consents[vc_id].credential_subject.consentGiven

(***************************************************************************)
(* Properties of the orchestrator, continued (SpecPlatform).               *)
(***************************************************************************)
\* C16: withdraw_consent on the consent of a COMPLETED transaction whose
\* escrow is FULFILLED, at any time, leaves the escrow FULFILLED and the
\* transaction COMPLETED.
WithdrawKeepsSettlement ==
    [][/\ last_call'.op = "withdraw_consent"
       /\ last_call' # last_call
       => \A t \in DOMAIN transactions :
             /\ transactions[t].consent_id = last_call'.args[1]
             /\ transactions[t].status = "COMPLETED"
             /\ active_escrows[transactions[t].escrow_id].status = "fulfilled"
             => /\ transactions'[t].status = "COMPLETED"
                /\ active_escrows'[transactions[t].escrow_id].status
                       = "fulfilled"]_vars

\* consent was withdrawn after the expiry time of the FULFILLED escrow of a
\* COMPLETED transaction
WithdrawAfterSettlementSeen ==
    /\ last_call.op = "withdraw_consent"
    /\ last_call.ok
    /\ \E t \in DOMAIN transactions :
          /\ transactions[t].consent_id = last_call.args[1]
          /\ transactions[t].status = "COMPLETED"
          /\ active_escrows[transactions[t].escrow_id].status = "fulfilled"
          /\ last_call.at > active_escrows[transactions[t].escrow_id].expires_at

(***************************************************************************)
(* Properties of the engine with several escrows (SpecOpen).               *)
(***************************************************************************)
\* the escrows bound to consent that are in no terminal state
OpenEscrowsOf(consent) ==
    {id \in DOMAIN active_escrows :
        /\ active_escrows[id].consent_id = consent
        /\ active_escrows[id].status \notin TerminalStatus}

\* C18: at most one non-terminal escrow is bound to any consent id; a
\* create_escrow_offer for a consent that has one does not create a second.
OneOpenEscrowPerConsent ==
    \A consent \in ConsentIds : Cardinality(OpenEscrowsOf(consent)) <= 1

(***************************************************************************)
(* Properties of the audit log (SpecAudit).                                *)
(***************************************************************************)
\* the calls of the audit manager that only read the log
AuditQueries == {"get_audit_trail", "verify_data_integrity", "export_audit_data"}

\* C19: the audit log is append-only: no operation of the audit manager
\* (record_audit_event, record_data_access, record_xrpl_transaction, the
\* queries, verify_data_integrity, export_audit_data) and no operation of
\* the orchestrator removes, replaces or reorders an event; the log before
\* a step is an unchanged prefix of the log after it.
AuditLogAppendOnly ==
    [][/\ Len(audit_events') >= Len(audit_events)
       /\ SubSeq(audit_events', 1, Len(audit_events)) = audit_events]_vars

\* a query has returned on a log that holds events recorded directly, by
\* the orchestrator and from a ledger memo
AuditQueryOnMixedLogSeen ==
    /\ last_call.op \in AuditQueries
    /\ last_call.ok
    /\ \E i, j, k \in DOMAIN audit_events :
          /\ audit_events[i].event_type = "data_requested"
          /\ audit_events[j].event_type = "access_granted"
          /\ audit_events[k].subject = "extracted_from_memo"

\* C20: the timestamps of the audit log never decrease along the log: an
\* event appended later carries a timestamp at least that of every event
\* appended before it.
AuditTimestampsNonDecreasing ==
    \A i, j \in DOMAIN audit_events :
       i < j => audit_events[i].timestamp <= audit_events[j].timestamp

\* the log holds an event recorded after the clock advanced past the
\* timestamp of an earlier event
AuditLaterTimestampSeen ==
    \E i, j \in DOMAIN audit_events :
       i < j /\ audit_events[i].timestamp < audit_events[j].timestamp

\* event e passes the filters get_audit_trail was called with
\* (args = <<subject, resource_id, start_date, end_date>>)
PassesFilters(e, args) ==
    /\ args[1] # "" => e.subject = args[1]
    /\ args[2] # "" => e.resource_id = args[2]
    /\ args[3] # None => e.timestamp >= args[3][1]
    /\ args[4] # None => e.timestamp <= args[4][1]

\* the place in the log events of the event a returned entry stands for
PlaceInLog(events, entry) ==
    CHOOSE i \in DOMAIN events : events[i].event_id = entry.eventId

\* result is what a query with filters args has to return on the log events
ExactQueryResult(events, args, result) ==
    /\ \A k \in DOMAIN result :
          \E i \in DOMAIN events : /\ result[k] = EventToDict(events[i])
                                  /\ PassesFilters(events[i], args)
    /\ \A i \in DOMAIN events :
          PassesFilters(events[i], args)
             => Cardinality({k \in DOMAIN result :
                                result[k].eventId = events[i].event_id}) = 1
    /\ \A k, l \in DOMAIN result :
          k < l => \/ result[k].timestamp < result[l].timestamp
                   \/ /\ result[k].timestamp = result[l].timestamp
                      /\ PlaceInLog(events, result[k])
                            < PlaceInLog(events, result[l])

\* the entries of earlier all occur in later, in the same relative order
KeepsRelativeOrder(earlier, later) ==
    /\ \A k \in DOMAIN earlier : \E m \in DOMAIN later : later[m] = earlier[k]
    /\ \A k \in 1 .. Len(earlier) - 1 :
          (CHOOSE m \in DOMAIN later : later[m] = earlier[k])
             < (CHOOSE n \in DOMAIN later : later[n] = earlier[k + 1])

\* C21: get_audit_trail returns exactly the events that pass every filter
\* it was given (subject, resource id, time range), ordered by timestamp
\* with equal timestamps in insertion order, and leaves the log and the
\* indexes as they were; the same query repeated with nothing appended in
\* between returns the same sequence, and the result the query has on the
\* log without its last event keeps its relative order in the current
\* result (so does, step by step, the result on every shorter log).
QueryIsExactFilterAndStableSort ==
    [][last_call'.op = "get_audit_trail" /\ last_call' # last_call
       => /\ ExactQueryResult(audit_events', last_call'.args, last_call'.tx[1])
          /\ audit_events' = audit_events
          /\ audit_index' = audit_index
          /\ (last_call.op = "get_audit_trail"
                  /\ last_call.args = last_call'.args)
                => last_call'.tx = last_call.tx
          /\ audit_events # <<>>
                => \A earlier \in
                       {AuditTrail(SubSeq(audit_events, 1, Len(audit_events) - 1),
                                   last_call'.args[1], last_call'.args[2],
                                   last_call'.args[3], last_call'.args[4])} :
                      KeepsRelativeOrder(earlier, last_call'.tx[1])]_vars

\* a query with a subject and a time range returned two events of one
\* timestamp and left out an event of the log
FilteredQuerySeen ==
    /\ last_call.op = "get_audit_trail"
    /\ last_call.args[1] # ""
    /\ last_call.args[3] # None
    /\ Len(last_call.tx[1]) >= 2
    /\ last_call.tx[1][1].timestamp = last_call.tx[1][2].timestamp
    /\ Len(last_call.tx[1]) < Len(audit_events)

(***************************************************************************)
(* Properties of verify_data_integrity on a stored log (SpecStore).        *)
(***************************************************************************)
\* the places in the log of the events of resource_id
PlacesOf(resource_id) ==
    {i \in DOMAIN audit_events : audit_events[i].resource_id = resource_id}

\* the events of resource_id are stored with a timestamp out of order
StoredOutOfOrder(resource_id) ==
    \E i, j \in PlacesOf(resource_id) :
       i < j /\ audit_events[i].timestamp > audit_events[j].timestamp

\* the event at place i names a ledger transaction the index does not hold
UnindexedReference(i) ==
    /\ audit_events[i].xrpl_tx_hash # None
    /\ audit_events[i].xrpl_tx_hash[1] \notin DOMAIN xrpl_transactions

\* C22: verify_data_integrity reports an ordering violation, and overall
\* invalid, for a resource whose events are stored with timestamps out of
\* order (as [t2, t1, t3] with t1 < t2), and reports valid for a resource
\* whose events are stored in order with every ledger reference indexed.
IntegrityReportsStoredOrder ==
    last_call.op = "verify_data_integrity"
       => LET resource_id == last_call.args[1]
              report == last_call.tx[1]
          IN /\ StoredOutOfOrder(resource_id)
                  => /\ ~report.valid
                     /\ \E k \in DOMAIN report.checks :
                           "Invalid timestamp order" \in report.checks[k].issues
             /\ (/\ PlacesOf(resource_id) # {}
                 /\ ~StoredOutOfOrder(resource_id)
                 /\ \A i \in PlacesOf(resource_id) : ~UnindexedReference(i))
                  => report.valid

\* C23: verify_data_integrity reports valid iff the resource has at least
\* one event and every event of the resource passes both checks (its
\* ledger transaction, if it names one, is in the index; its timestamp is
\* not before that of the event checked before it); a resource with no
\* event is reported invalid with the reason "No audit trail found", and an
\* event whose ledger transaction is not in the index is flagged and makes
\* the report invalid.
IntegrityValidIffAllChecksPass ==
    last_call.op = "verify_data_integrity"
       => LET resource_id == last_call.args[1]
              report == last_call.tx[1]
          IN /\ report.valid
                  <=> /\ PlacesOf(resource_id) # {}
                      /\ \A k \in DOMAIN report.checks : report.checks[k].valid
             /\ PlacesOf(resource_id) = {}
                  => report = [valid |-> FALSE, reason |-> "No audit trail found"]
             /\ PlacesOf(resource_id) # {}
                  => /\ {report.checks[k].eventId : k \in DOMAIN report.checks}
                           = {audit_events[i].event_id : i \in PlacesOf(resource_id)}
                     /\ Len(report.checks) = Cardinality(PlacesOf(resource_id))
                     /\ \A k \in DOMAIN report.checks :
                           \A i \in PlacesOf(resource_id) :
                              audit_events[i].event_id = report.checks[k].eventId
                                 => /\ report.checks[k].valid
                                        <=> /\ ~UnindexedReference(i)
                                            /\ k > 1 =>
                                                  report.checks[k].timestamp
                                                     >= report.checks[k - 1].timestamp
                                    /\ UnindexedReference(i)
                                          <=> "Missing XRPL transaction"
                                                 \in report.checks[k].issues

\* verify_data_integrity has flagged the only event of a resource, whose
\* ledger transaction is not in the index, and reported invalid
UnindexedEventFlaggedSeen ==
    /\ last_call.op = "verify_data_integrity"
    /\ Cardinality(PlacesOf(last_call.args[1])) = 1
    /\ \E i \in PlacesOf(last_call.args[1]) : UnindexedReference(i)
    /\ ~last_call.tx[1].valid
    /\ "Missing XRPL transaction" \in last_call.tx[1].checks[1].issues

(***************************************************************************)
(* Properties of the compliance flag (SpecCompliance).                     *)
(***************************************************************************)
\* C24: record_audit_event marks a consent_created event COMPLIANT iff its
\* metadata carries all four of purpose, dataTypes, retentionPeriod and
\* recipient, and marks an event of any other kind COMPLIANT; the flag is
\* computed when the event is appended and not changed afterwards.
ComplianceFlagSetAtAppend ==
    [][/\ \A i \in DOMAIN audit_events' :
             audit_events'[i].compliance_status
                = IF \/ audit_events'[i].event_type # "consent_created"
                     \/ RequiredFields \subseteq DOMAIN audit_events'[i].metadata
                  THEN "COMPLIANT" ELSE "NON_COMPLIANT"
       /\ \A i \in DOMAIN audit_events :
             /\ i \in DOMAIN audit_events'
             /\ audit_events'[i].compliance_status
                   = audit_events[i].compliance_status]_vars

\* the log holds a consent_created event with three of the four fields,
\* marked NON_COMPLIANT, and a consent_created event with all four, marked
\* COMPLIANT, appended after it
PartialMetadataFlaggedSeen ==
    \E i, j \in DOMAIN audit_events :
       /\ i < j
       /\ audit_events[i].event_type = "consent_created"
       /\ Cardinality(DOMAIN audit_events[i].metadata) = 3
       /\ audit_events[i].compliance_status = "NON_COMPLIANT"
       /\ audit_events[j].event_type = "consent_created"
       /\ DOMAIN audit_events[j].metadata = RequiredFields
       /\ audit_events[j].compliance_status = "COMPLIANT"

(***************************************************************************)
(* Properties of accept_offer and complete_data_delivery (SpecPlatform).   *)
(***************************************************************************)
\* the step is a call of the orchestrator operation op
PlatformStep(op) == last_call'.op = op /\ last_call' # last_call

\* C25: accept_offer is rejected when the offer is not pending or the
\* clock is past the offer's valid_until, and a rejected accept_offer
\* creates no credential, no escrow, no bundle and no transaction and
\* appends no audit event.
RejectedAcceptCreatesNothing ==
    [][PlatformStep("accept_offer")
       => LET offer_id == last_call'.args[1] IN
          (\/ offer_id \notin DOMAIN offers
           \/ offers[offer_id].status # "pending"
           \/ now > offers[offer_id].valid_until)
                => /\ ~last_call'.ok
                   /\ active_consents' = active_consents
                   /\ consent_history' = consent_history
                   /\ active_escrows' = active_escrows
                   /\ escrow_history' = escrow_history
                   /\ bundles' = bundles
                   /\ transactions' = transactions
                   /\ audit_events' = audit_events]_vars

\* accept_offer was rejected for a pending offer whose valid_until had
\* passed; no credential and no transaction exists
ExpiredOfferRejectedSeen ==
    /\ last_call.op = "accept_offer"
    /\ ~last_call.ok
    /\ last_call.args[1] \in DOMAIN offers
    /\ offers[last_call.args[1]].status = "expired"
    /\ last_call.at > offers[last_call.args[1]].valid_until
    /\ active_consents = <<>>
    /\ transactions = <<>>

\* C26: every successful accept_offer appends a consent_created audit
\* event for the credential it created and then an escrow_created audit
\* event for the escrow it created, in that order.
AcceptAppendsConsentThenEscrow ==
    [][PlatformStep("accept_offer") /\ last_call'.ok
       => \E t \in DOMAIN transactions' \ DOMAIN transactions :
             \E i, j \in DOMAIN audit_events' \ DOMAIN audit_events :
                /\ i < j
                /\ audit_events'[i].event_type = "consent_created"
                /\ audit_events'[i].resource_id = transactions'[t].consent_id
                /\ audit_events'[j].event_type = "escrow_created"
                /\ audit_events'[j].resource_id = transactions'[t].escrow_id]_vars

\* C28: in every reachable state each escrow the engine holds, an escrow in
\* state created in particular, has at least one audit event whose
\* resource id is the escrow's id.
EveryEscrowHasAuditEvent ==
    \A id \in DOMAIN active_escrows :
       \E i \in DOMAIN audit_events : audit_events[i].resource_id = id

(***************************************************************************)
(* Properties of a failing accept_offer (SpecAccept).                      *)
(***************************************************************************)
\* C27: when a step of accept_offer fails after the credential or the
\* escrow has been created, an audit event that records the failure is
\* appended: a failed accept_offer leaves no credential and no escrow it
\* created without a new audit event whose resource id is theirs.
FailedAcceptIsAudited ==
    [][PlatformStep("accept_offer") /\ ~last_call'.ok
       => \A id \in (DOMAIN active_consents' \ DOMAIN active_consents)
                    \cup (DOMAIN active_escrows' \ DOMAIN active_escrows) :
             \E i \in DOMAIN audit_events' \ DOMAIN audit_events :
                audit_events'[i].resource_id = id]_vars

\* C29: a complete_data_delivery that fails at lock or fulfill leaves the
\* transaction's status and completed time as they were and appends no
\* data_delivered or payment_completed audit event; and a
\* complete_data_delivery made no later than the escrow's expiry time
\* succeeds, whatever calls failed before it.
FailedDeliveryKeepsTransaction ==
    [][/\ PlatformStep("complete_data_delivery")
       /\ last_call'.args[1] \in DOMAIN transactions
       => LET t == last_call'.args[1]
              escrow_id == transactions[t].escrow_id
          IN /\ ~last_call'.ok
                  => /\ transactions' = transactions
                     /\ audit_events' = audit_events
             /\ now <= active_escrows[escrow_id].expires_at
                  => /\ last_call'.ok
                     /\ transactions'[t].status = "COMPLETED"]_vars

\* complete_data_delivery has failed on a transaction that stays at
\* CONSENT_GIVEN with no completed time
FailedDeliverySeen ==
    /\ last_call.op = "complete_data_delivery"
    /\ ~last_call.ok
    /\ last_call.args[1] \in DOMAIN transactions
    /\ transactions[last_call.args[1]].status = "CONSENT_GIVEN"
    /\ transactions[last_call.args[1]].completed_at = None
    /\ \A i \in DOMAIN audit_events :
          audit_events[i].event_type \notin {"data_delivered", "payment_completed"}

\* C30: after accept_offer and a successful complete_data_delivery the
\* transaction is COMPLETED, its escrow is fulfilled, and the audit trail
\* of the patient holds a consent_created event for the credential, after
\* it a data_delivered event of the transaction, and after that a
\* payment_completed event for the escrow.
DeliveryCompletesAndIsAudited ==
    [][/\ PlatformStep("complete_data_delivery")
       /\ last_call'.ok
       => LET t == last_call'.args[1]
              transaction == transactions'[t]
          IN /\ transaction.status = "COMPLETED"
             /\ active_escrows'[transaction.escrow_id].status = "fulfilled"
             /\ \A trail \in {AuditTrail(audit_events', transaction.patient_did,
                                          "", None, None)} :
                   \E i, j, k \in DOMAIN trail :
                      /\ i < j /\ j < k
                      /\ trail[i].eventType = "consent_created"
                      /\ trail[i].resourceId = transaction.consent_id
                      /\ trail[j].eventType = "data_delivered"
                      /\ trail[j].metadata.transactionId = t
                      /\ trail[k].eventType = "payment_completed"
                      /\ trail[k].resourceId = transaction.escrow_id]_vars

\* a complete_data_delivery made at a later time than the accept_offer of
\* its transaction has succeeded
DeliveryAfterAcceptSeen ==
    /\ last_call.op = "complete_data_delivery"
    /\ last_call.ok
    /\ transactions[last_call.args[1]].status = "COMPLETED"
    /\ transactions[last_call.args[1]].completed_at
          # Some(transactions[last_call.args[1]].created_at)
    /\ active_escrows[transactions[last_call.args[1]].escrow_id].status
          = "fulfilled"

(***************************************************************************)
(* Properties of withdraw_consent and of the transaction status            *)
(* (SpecPlatform).                                                         *)
(***************************************************************************)
\* C31: a withdraw_consent made no later than the expiry time of the bound
\* escrow leaves the escrow and the transaction status as they are; a
\* withdraw_consent marks a transaction CANCELLED only when the escrow's
\* cancel succeeded in the same call, after the expiry time; and no
\* transaction is CANCELLED while its escrow is created or locked.
WithdrawCancelsOnlyAfterExpiry ==
    [][/\ PlatformStep("withdraw_consent")
          => \A t \in DOMAIN transactions :
                transactions[t].consent_id = last_call'.args[1]
                => LET id == transactions[t].escrow_id IN
                   /\ now <= active_escrows[id].expires_at
                        => /\ active_escrows'[id] = active_escrows[id]
                           /\ transactions'[t] = transactions[t]
                   /\ (/\ transactions'[t].status = "CANCELLED"
                       /\ transactions[t].status # "CANCELLED")
                        => /\ now > active_escrows[id].expires_at
                           /\ last_call'.ok
                           /\ active_escrows'[id].status = "expired"
       /\ \A t \in DOMAIN transactions' :
             transactions'[t].status = "CANCELLED"
             => active_escrows'[transactions'[t].escrow_id].status
                   \notin {"created", "locked"}]_vars

\* consent was withdrawn before the expiry time of the escrow, which is
\* still created, and the transaction is still CONSENT_GIVEN
EarlyWithdrawSeen ==
    /\ last_call.op = "withdraw_consent"
    /\ last_call.ok
    /\ \E t \in DOMAIN transactions :
          /\ transactions[t].consent_id = last_call.args[1]
          /\ transactions[t].status = "CONSENT_GIVEN"
          /\ active_escrows[transactions[t].escrow_id].status = "created"
          /\ last_call.at < active_escrows[transactions[t].escrow_id].expires_at

\* C32: every withdraw_consent that revokes the credential appends exactly
\* one audit event, a consent_withdrawn event for that consent, whether
\* the escrow cancellations it tried succeeded or failed or there were
\* none to try.
WithdrawAppendsOneEvent ==
    [][PlatformStep("withdraw_consent") /\ last_call'.ok
       => /\ Len(audit_events') = Len(audit_events) + 1
          /\ SubSeq(audit_events', 1, Len(audit_events)) = audit_events
          /\ audit_events'[Len(audit_events')].event_type = "consent_withdrawn"
          /\ audit_events'[Len(audit_events')].resource_id = last_call'.args[1]]_vars

\* a withdraw_consent has cancelled the escrow of a transaction, marked it
\* CANCELLED and appended the consent_withdrawn event
WithdrawWithCancelSeen ==
    /\ last_call.op = "withdraw_consent"
    /\ last_call.ok
    /\ audit_events # <<>>
    /\ audit_events[Len(audit_events)].event_type = "consent_withdrawn"
    /\ \E t \in DOMAIN transactions :
          /\ transactions[t].consent_id = last_call.args[1]
          /\ transactions[t].status = "CANCELLED"

\* the steps of the transaction status the specification allows
TransactionOrder ==
    <<"OFFER_PENDING", "OFFER_ACCEPTED", "CONSENT_GIVEN", "DELIVERY_LOCKED",
      "COMPLETED">>
TerminalTransactionStatus == {"COMPLETED", "CANCELLED", "EXPIRED"}
AllowedStatusStep(from, to) ==
    \/ \E i \in 1 .. Len(TransactionOrder) - 1 :
          from = TransactionOrder[i] /\ to = TransactionOrder[i + 1]
    \/ /\ from \notin TerminalTransactionStatus
       /\ to \in {"CANCELLED", "EXPIRED"}

\* C33: every change of a transaction's status is one step along
\* OFFER_PENDING, OFFER_ACCEPTED, CONSENT_GIVEN, DELIVERY_LOCKED, COMPLETED
\* or a move from a non-terminal status to CANCELLED or EXPIRED: a
\* transaction becomes COMPLETED only from DELIVERY_LOCKED and a status
\* COMPLETED, CANCELLED or EXPIRED is never changed.
TransactionStatusFollowsOrder ==
    [][\A t \in DOMAIN transactions :
          /\ t \in DOMAIN transactions'
          /\ transactions'[t].status # transactions[t].status
                => AllowedStatusStep(transactions[t].status,
                                     transactions'[t].status)]_vars

\* some operation of the orchestrator brings transaction t to CANCELLED or
\* EXPIRED in one call
SomeCallCancels(t) ==
    ENABLED (/\ NextPlatform
             /\ transactions'[t].status \in {"CANCELLED", "EXPIRED"})

\* C34: a transaction that is not COMPLETED, CANCELLED or EXPIRED can
\* always still become CANCELLED or EXPIRED: once the expiry time of its
\* escrow has passed some operation brings it there, also when its consent
\* was withdrawn before the expiry time.
OpenTransactionCanBeCancelled ==
    \A t \in DOMAIN transactions :
       /\ transactions[t].status \notin TerminalTransactionStatus
       /\ now > active_escrows[transactions[t].escrow_id].expires_at
       /\ AuditRoom(1)
       /\ Len(escrow_history) + 1 <= MaxHistory
       => SomeCallCancels(t)

\* C35: the finish envelope of a successful fulfill carries the revealed
\* secret itself as Fulfillment, so that the digest of the Fulfillment is the
\* Condition of the escrow's create envelope, and its OfferSequence is the
\* sequence number recorded by lock.
FinishEnvelopeRevealsSecret ==
    LastCallOn("fulfill") /\ last_call.ok =>
        LET finish == last_call.tx[1]
            create == BuildEscrowCreateTransaction(active_escrows, last_call.pre[1])
        IN /\ finish.Fulfillment = last_call.args[2]
           /\ Sha256HexUpper(finish.Fulfillment) = create.Condition
           /\ finish.OfferSequence = last_call.pre[1].xrpl_sequence

\* a memo of tx_data whose MemoData cannot be decoded
HasMalformedMemo(tx_data) ==
    /\ "Memos" \in DOMAIN tx_data
    /\ \E i \in 1..Len(tx_data.Memos) :
          /\ "Memo" \in DOMAIN tx_data.Memos[i]
          /\ "MemoData" \in DOMAIN tx_data.Memos[i].Memo
          /\ ~Decodable(tx_data.Memos[i].Memo.MemoData)

\* C36: record_xrpl_transaction on a transaction whose memo is malformed
\* does not abort: the transaction is in the index afterwards, no audit event
\* is extracted from it, and a note of the parse failure is recorded (in the
\* index entry, in the audit log or in the access log).
MalformedMemoIsNoted ==
    [][PlatformStep("record_xrpl_transaction")
       => \A h \in {last_call'.args[1]} :
             /\ h \in DOMAIN xrpl_transactions'
             /\ HasMalformedMemo(xrpl_transactions'[h].txData)
                  => /\ \A i \in Len(audit_events) + 1 .. Len(audit_events') :
                           audit_events'[i].event_type # "data_delivered"
                     /\ \/ DOMAIN xrpl_transactions'[h]
                              # {"txHash", "txData", "recordedAt", "relatedEventId"}
                        \/ audit_events' # audit_events
                        \/ access_logs' # access_logs]_vars

\* C37: in every state reached through the orchestrator's operations a
\* COMPLETED transaction has an escrow whose status is FULFILLED.
CompletedHasFulfilledEscrow ==
    \A t \in DOMAIN transactions :
       transactions[t].status = "COMPLETED"
       => active_escrows[transactions[t].escrow_id].status = "fulfilled"

\* withdraw_consent has revoked the consent: its withdrawal is in the log
ConsentWithdrawn(consent_id) ==
    \E i \in 1..Len(audit_events) :
       /\ audit_events[i].event_type = "consent_withdrawn"
       /\ audit_events[i].resource_id = consent_id

\* C38: once withdraw_consent has revoked a consent, no later
\* complete_data_delivery on a transaction bound to it succeeds.
NoDeliveryAfterWithdrawal ==
    [][/\ PlatformStep("complete_data_delivery")
       /\ last_call'.args[1] \in DOMAIN transactions
       /\ ConsentWithdrawn(transactions[last_call'.args[1]].consent_id)
       => ~last_call'.ok]_vars

\* the credentials ever created: the CREATED entries of the consent log
CredentialsCreated ==
    {i \in DOMAIN consent_history : consent_history[i].action = "CREATED"}

\* C39: each offer is accepted at most once: at most one transaction, one
\* credential and one escrow are ever created per offer, and an offer that
\* has left PENDING never is PENDING again.
OfferAcceptedAtMostOnce ==
    [][/\ \A o \in DOMAIN offers' :
             Cardinality({t \in DOMAIN transactions' :
                             transactions'[t].offer_id = o}) <= 1
       /\ Cardinality(DOMAIN active_escrows') <= Cardinality(DOMAIN offers')
       /\ Cardinality(CredentialsCreated') <= Cardinality(DOMAIN offers')
       /\ \A o \in DOMAIN offers :
             offers[o].status # "pending"
             => o \in DOMAIN offers' /\ offers'[o].status # "pending"]_vars

\* C40: every consent_created event that accept_offer appends to the audit
\* log is flagged COMPLIANT by the compliance rule.
AcceptedConsentIsCompliant ==
    [][PlatformStep("accept_offer")
       => \A i \in Len(audit_events) + 1 .. Len(audit_events') :
             audit_events'[i].event_type = "consent_created"
             => audit_events'[i].compliance_status = "COMPLIANT"]_vars

====
